---- MODULE Spec2Model ----
(***************************************************************************)
(* A model of the claim-extraction and trust-scoring pipeline of Delos     *)
(* (a browser extension): the score aggregator (ClaimScorer), the          *)
(* cache-first classifier (ClaimClassifier) and the TTL cache they share.  *)
(*                                                                         *)
(* JavaScript values are encoded as records [type, n, d]:                  *)
(*   a number is [type |-> "number", n, d], the rational n/d in lowest     *)
(*   terms with d > 0, and NaN is the number with d = 0;                   *)
(*   a string is [type |-> "string", n |-> k, d |-> 0], k naming the       *)
(*   string (0 is 'n/a').                                                  *)
(* The weights 0.475, 0.05, ... are the exact decimals, so the arithmetic  *)
(* below is real arithmetic, not IEEE-754 rounding.                        *)
(***************************************************************************)
EXTENDS Integers, Sequences, FiniteSets, TLC

VARIABLES
    \* calculateTrustScore applied to one input (a pure function)
    tsScores,          \* the scores argument {aiRating, toneAnalysis, scholarlyMatch, webReinforced}
    tsClassification,  \* the classification argument
    tsResult,          \* what calculateTrustScore returned: {trustScore, note}
    tsPc,              \* "call" before the call, "done" after it
    \* ClaimScorer.score applied to one batch of classified claims
    scClaims,          \* the claims argument
    scRace,            \* per claim, the state of the four withTimeout races
    scRecords,         \* per claim, what scoreSingleClaim resolved to
    scResult,          \* the array score resolved to
    scPc,              \* "call", "scoring" (awaiting Promise.all), "returned"
    \* ClaimClassifier.classify, called again and again over one cache
    cache,             \* Cache.cache: key -> {value, expiresAt}
    now,               \* Date.now(), in ms
    apiKey,            \* whether an OpenAI key is stored (API.getApiKey)
    clClaims,          \* the claims argument of the current (or last) call
    clCached,          \* its cachedResults
    clResult,          \* what the last call resolved to
    clPath,            \* the path the last call returned by
    clPc               \* "idle", "remote" (awaiting API.retry), "returned"

tsVars == <<tsScores, tsClassification, tsResult, tsPc>>
scVars == <<scClaims, scRace, scRecords, scResult, scPc>>

clVars == <<cache, now, apiKey, clClaims, clCached, clResult, clPath, clPc>>

VARIABLES
    \* Cache.get / Cache.set / Cache.clear called directly on the cache
    kvLast,            \* per key, the most recent Cache.set: {value, ttl, at}
    kvGot              \* the last Cache.get: {key, value}, until the next write

kvVars == <<kvLast, kvGot>>

VARIABLES
    \* AIScorer.score, ScholarScorer.score and WebScorer.score called one
    \* after the other over the cache
    aiApiKey,          \* AIScorer.apiKey: whether a key was read from storage
    aiInitialized,     \* AIScorer.initialized
    srCall,            \* the call in progress: {scorer, claim, classification}
    srOps,             \* what the call did so far: Cache.get, Cache.set, searches
    srResult,          \* what the last call resolved to
    srPc               \* "idle", "remote" (awaiting the collaborator), "returned"

srVars == <<aiApiKey, aiInitialized, srCall, srOps, srResult, srPc>>

VARIABLES
    \* WebScorer.calculateScore applied to the analysis of one search
    wcResults,         \* what searchWeb resolved to
    wcAnalysis,        \* the analysis of analyzeSourceSpectrum
    wcScore,           \* what calculateScore returned
    wcPc               \* "call" before the call, "done" after it

wcVars == <<wcResults, wcAnalysis, wcScore, wcPc>>

VARIABLES
    \* DomainBiasResolver
    MAP,                  \* the active map, domain to lean
    biasSnapshot,         \* localStorage's 'biasSnapshot' item
    localStorageDefined,  \* typeof localStorage !== 'undefined'
    brLookup,             \* the last classify call: input, result, map read
    lsReload,             \* the last loadSnapshot call: map before, json, outcome
    lsPc                  \* where loadSnapshot is: "idle", "fetch", "json"

brVars == <<MAP, biasSnapshot, localStorageDefined, brLookup, lsReload, lsPc>>

VARIABLES
    \* ClaimExtractor.isCheckWorthyClaim applied to one sentence
    cwSentence,        \* the sentence
    cwResult,          \* what isCheckWorthyClaim returned
    cwPc               \* "call" before the call, "done" after it

cwVars == <<cwSentence, cwResult, cwPc>>

VARIABLES
    \* ClaimExtractor.mergeQuotedContent, one loop iteration at a time
    mqSentences,       \* the sentences it was given
    mqI,               \* the loop index i, counted from 1
    mqMerged,          \* the units pushed so far
    mqRule,            \* the rule the last iteration applied
    mqPc               \* "loop" inside the loop, "done" after the return

mqVars == <<mqSentences, mqI, mqMerged, mqRule, mqPc>>

VARIABLES
    \* ClaimExtractor.extract, one loop iteration at a time
    maxClaimsPerArticle, \* CONFIG.maxClaimsPerArticle
    exInput,           \* the text extract was called with
    exText,            \* its variable text
    exSentences,       \* its variable sentences once the loop starts
    exI,               \* the loop index i, counted from 1
    exCurrentPos,      \* its variable currentPos
    exClaims,          \* its variable claims
    exResult,          \* the list it returned
    exPc               \* "call", "loop", then "returned" or "caught" by the catch block

exVars == <<maxClaimsPerArticle, exInput, exText, exSentences, exI, exCurrentPos,
            exClaims, exResult, exPc>>

VARIABLES
    \* API.retry, one attempt at a time
    rtFn,              \* the function it wraps: "batchClassify" or "call"
    rtMaxRetries,      \* its argument maxRetries
    rtDelay,           \* its argument delay, in ms
    rtI,               \* the loop index i
    rtAttempts,        \* how the request of each attempt so far ended
    rtWaits,           \* the delays it slept between attempts, in ms
    rtResult,          \* what retry settled with
    rtPc               \* "idle", "request", "sleep", "settled"

rtVars == <<rtFn, rtMaxRetries, rtDelay, rtI, rtAttempts, rtWaits, rtResult, rtPc>>

VARIABLES
    \* the claim objects as they pass from the extractor through classify to score
    plHeap,            \* the objects, by reference
    plBefore,          \* the objects as they were when the last stage was called
    plClaims,          \* the extractor's array: references to its claim objects
    plClassified,      \* the array classify resolved to
    plScored,          \* the array score resolved to
    plPc               \* "extracted", "classified", "scored"

plVars == <<plHeap, plBefore, plClaims, plClassified, plScored, plPc>>

VARIABLES
    \* ClaimScorer.scoreSingleClaim called again and again for one claim,
    \* with the scorers of aiScorer.js and scholarScorer.js over the cache
    rsClaim,           \* the classified claim
    rsRun,             \* how many times it was scored so far
    rsScorer,          \* per run and signal, the scorer's promise: pending on the network or settled
    rsRace,            \* per run and signal, the withTimeout race
    rsRecords,         \* per run, the record scoreSingleClaim resolved to
    rsPc               \* "idle", "scoring" (awaiting Promise.all), "returned"

rsVars == <<rsClaim, rsRun, rsScorer, rsRace, rsRecords, rsPc>>

\* the variables added after the first four components
moreVars == <<srVars, wcVars, brVars, cwVars, mqVars, exVars, rtVars, plVars, rsVars>>

vars == <<tsVars, scVars, clVars, kvVars, moreVars>>

\* what each component leaves alone
tsFrame == <<scVars, clVars, kvVars, moreVars>>
scFrame == <<tsVars, clVars, kvVars, moreVars>>
clFrame == <<tsVars, scVars, kvVars, moreVars>>
kvFrame == <<tsVars, scVars, moreVars>>
srFrame == <<tsVars, scVars, kvVars, wcVars, brVars, cwVars, mqVars, exVars, rtVars, plVars, rsVars>>
wcFrame == <<tsVars, scVars, clVars, kvVars, srVars, brVars, cwVars, mqVars, exVars, rtVars, plVars, rsVars>>
brFrame == <<tsVars, scVars, clVars, kvVars, srVars, wcVars, cwVars, mqVars, exVars, rtVars, plVars, rsVars>>
cwFrame == <<tsVars, scVars, clVars, kvVars, srVars, wcVars, brVars, mqVars, exVars, rtVars, plVars, rsVars>>
mqFrame == <<tsVars, scVars, clVars, kvVars, srVars, wcVars, brVars, cwVars, exVars, rtVars, plVars, rsVars>>
exFrame == <<tsVars, scVars, clVars, kvVars, srVars, wcVars, brVars, cwVars, mqVars, rtVars, plVars, rsVars>>
rtFrame == <<tsVars, scVars, clVars, kvVars, srVars, wcVars, brVars, cwVars, mqVars, exVars, plVars, rsVars>>
plFrame == <<tsVars, scVars, clVars, kvVars, srVars, wcVars, brVars, cwVars, mqVars, exVars, rtVars, rsVars>>
rsFrame == <<tsVars, scVars, kvVars, wcVars, brVars, cwVars, mqVars, exVars, rtVars, plVars>>

-----------------------------------------------------------------------------
(* Bounds of the model *)

\* Signal values are drawn from the grid 0, 10/ScoreLevels, ..., 10.
ScoreLevels == 5

\* The longest batch of claims handed to ClaimScorer.score
MaxClaims == 2

\* The longest batch of claims handed to ClaimClassifier.classify
MaxBatch == 2

\* The clock advances MaxTicks times at most, each time by more than the
\* cache TTL
MaxTicks == 1

-----------------------------------------------------------------------------
(* JavaScript numbers *)

\* Every operator below binds its operands once (a \in {x}), so that each
\* operand is evaluated a single time however deep the expression is.

Abs(x) == IF x < 0 THEN -x ELSE x

RECURSIVE GCD(_, _)
GCD(a, b) == IF b = 0 THEN a ELSE CHOOSE g \in {GCD(b, r) : r \in {a % b}} : TRUE

NaN == [type |-> "number", n |-> 0, d |-> 0]

\* The number n/d (d # 0), in lowest terms.
Num(n, d) ==
    CHOOSE x \in {[type |-> "number",
                   n |-> (IF b < 0 THEN -a ELSE a) \div g,
                   d |-> Abs(b) \div g] :
                     a \in {n}, b \in {d}, g \in {GCD(Abs(n), Abs(d))}} : TRUE

IsNaN(x) == x.d = 0

Add(x, y) ==
    CHOOSE z \in {IF IsNaN(a) \/ IsNaN(b) THEN NaN
                  ELSE Num(a.n * b.d + b.n * a.d, a.d * b.d) :
                     a \in {x}, b \in {y}} : TRUE

Mul(x, y) ==
    CHOOSE z \in {IF IsNaN(a) \/ IsNaN(b) THEN NaN
                  ELSE Num(a.n * b.n, a.d * b.d) :
                     a \in {x}, b \in {y}} : TRUE

\* x / y.  (x / 0 is an infinity or NaN in JavaScript; no call below divides
\* by zero: case 1 tests totalWeight === 0 first and the other totals include
\* a non-zero weight, or are NaN.)
Div(x, y) ==
    CHOOSE z \in {IF IsNaN(a) \/ IsNaN(b) \/ b.n = 0 THEN NaN
                  ELSE Num(a.n * b.d, a.d * b.n) :
                     a \in {x}, b \in {y}} : TRUE

\* Math.round: the nearest integer, halves towards +Infinity; NaN stays NaN.
MathRound(x) ==
    CHOOSE z \in {IF IsNaN(a) THEN NaN
                  ELSE Num((2 * a.n + a.d) \div (2 * a.d), 1) : a \in {x}} : TRUE

\* x <= y on numbers that are not NaN
Leq(x, y) == x.n * y.d <= y.n * x.d

\* The string 'n/a', and some other string (a value that is neither 'n/a'
\* nor a number)
NA == [type |-> "string", n |-> 0, d |-> 0]
OtherString == [type |-> "string", n |-> 1, d |-> 0]

TypeofNumber(v) == v.type = "number"

\* k tenths: the number k/10
Tenths(k) == Num(k, 10)

-----------------------------------------------------------------------------
(* ClaimScorer.calculateTrustScore *)

Classifications == {"current_news", "general_knowledge", "empirical_fact"}

\* Names every object inherits from Object.prototype: SCORING_WEIGHTS[name]
\* is then an inherited (truthy) value that has none of the four weights.
ObjectPrototypeNames == {"constructor", "toString", "valueOf", "hasOwnProperty", "__proto__"}

Thousandths(k) == Num(k, 1000)

SCORING_WEIGHTS ==
    [c \in Classifications |->
        IF c = "empirical_fact"
        THEN [aiRating |-> Thousandths(250), toneAnalysis |-> Thousandths(50),
              scholarlyMatch |-> Thousandths(450), webReinforced |-> Thousandths(250)]
        ELSE [aiRating |-> Thousandths(475), toneAnalysis |-> Thousandths(50),
              scholarlyMatch |-> Thousandths(0), webReinforced |-> Thousandths(475)]]

\* An inherited value read as a weight vector: every weight is undefined,
\* which arithmetic turns into NaN.
InheritedWeights ==
    [aiRating |-> NaN, toneAnalysis |-> NaN, scholarlyMatch |-> NaN, webReinforced |-> NaN]

\* SCORING_WEIGHTS[classification] || SCORING_WEIGHTS.general_knowledge
WeightsFor(classification) ==
    IF classification \in Classifications THEN SCORING_WEIGHTS[classification]
    ELSE IF classification \in ObjectPrototypeNames THEN InheritedWeights
    ELSE SCORING_WEIGHTS["general_knowledge"]

NoteBoth == "AI scorers unavailable - using scholarly + web only"
NoteAi == "AI credibility scorer unavailable"
NoteTone == "AI tone scorer unavailable"
\* the value of a note that was never assigned
Undefined == "undefined"

Available(v) == v # NA /\ TypeofNumber(v)

\* weights.x / totalWeight
\* (mutant of Normalized: the weight is used as configured, not renormalized)
NormalizedUnscaled(weight, totalWeight) == weight

Normalized(weight, totalWeight) == Div(weight, totalWeight)

\* (mutant of Case1: the two weights are used as configured, not renormalized)
Case1Configured(weights, scholarlyMatch, webReinforced) ==
    Add(Mul(scholarlyMatch, weights.scholarlyMatch),
        Mul(webReinforced, weights.webReinforced))

\* (mutant of Case1: the unweighted average whatever the weights)
Case1Average(weights, scholarlyMatch, webReinforced) ==
    Div(Add(scholarlyMatch, webReinforced), Num(2, 1))

\* Case 1: both AI scores unavailable
Case1(weights, scholarlyMatch, webReinforced) ==
    LET totalWeight == Add(weights.scholarlyMatch, weights.webReinforced)
    IN  IF totalWeight = Num(0, 1)
        THEN Div(Add(scholarlyMatch, webReinforced), Num(2, 1))
        ELSE Add(Mul(scholarlyMatch, Normalized(weights.scholarlyMatch, totalWeight)),
                 Mul(webReinforced, Normalized(weights.webReinforced, totalWeight)))

\* Case 2: only the AI rating unavailable
Case2(weights, toneAnalysis, scholarlyMatch, webReinforced) ==
    LET totalWeight == Add(Add(weights.toneAnalysis, weights.scholarlyMatch),
                           weights.webReinforced)
    IN  Add(Add(Mul(toneAnalysis, Normalized(weights.toneAnalysis, totalWeight)),
                Mul(scholarlyMatch, Normalized(weights.scholarlyMatch, totalWeight))),
            Mul(webReinforced, Normalized(weights.webReinforced, totalWeight)))

\* Case 3: only the tone analysis unavailable
Case3(weights, aiRating, scholarlyMatch, webReinforced) ==
    LET totalWeight == Add(Add(weights.aiRating, weights.scholarlyMatch),
                           weights.webReinforced)
    IN  Add(Add(Mul(aiRating, Normalized(weights.aiRating, totalWeight)),
                Mul(scholarlyMatch, Normalized(weights.scholarlyMatch, totalWeight))),
            Mul(webReinforced, Normalized(weights.webReinforced, totalWeight)))

\* Case 4: all scores available
Case4(weights, aiRating, toneAnalysis, scholarlyMatch, webReinforced) ==
    Add(Add(Add(Mul(aiRating, weights.aiRating),
                Mul(toneAnalysis, weights.toneAnalysis)),
            Mul(scholarlyMatch, weights.scholarlyMatch)),
        Mul(webReinforced, weights.webReinforced))

\* (mutant of Note: the two single-signal notes are exchanged)
NoteSwapped(aiAvailable, toneAvailable) ==
    IF ~aiAvailable /\ ~toneAvailable THEN NoteBoth
    ELSE IF ~aiAvailable /\ toneAvailable THEN NoteTone
    ELSE IF aiAvailable /\ ~toneAvailable THEN NoteAi
    ELSE Undefined

\* The note each case assigns
Note(aiAvailable, toneAvailable) ==
    IF ~aiAvailable /\ ~toneAvailable THEN NoteBoth
    ELSE IF ~aiAvailable /\ toneAvailable THEN NoteAi
    ELSE IF aiAvailable /\ ~toneAvailable THEN NoteTone
    ELSE Undefined

\* Math.round(trustScore * 10) / 10
RoundToOneDecimal(x) == Div(MathRound(Mul(x, Num(10, 1))), Num(10, 1))

calculateTrustScore(scores, classification) ==
    LET weights == WeightsFor(classification)
        aiRating == scores.aiRating
        toneAnalysis == scores.toneAnalysis
        scholarlyMatch == scores.scholarlyMatch
        webReinforced == scores.webReinforced
        aiAvailable == Available(aiRating)
        toneAvailable == Available(toneAnalysis)
        trustScore ==
            IF ~aiAvailable /\ ~toneAvailable
            THEN Case1(weights, scholarlyMatch, webReinforced)
            ELSE IF ~aiAvailable /\ toneAvailable
            THEN Case2(weights, toneAnalysis, scholarlyMatch, webReinforced)
            ELSE IF aiAvailable /\ ~toneAvailable
            THEN Case3(weights, aiRating, scholarlyMatch, webReinforced)
            ELSE Case4(weights, aiRating, toneAnalysis, scholarlyMatch, webReinforced)
    IN  [trustScore |-> RoundToOneDecimal(trustScore),
         note |-> Note(aiAvailable, toneAvailable)]

-----------------------------------------------------------------------------
(* The inputs calculateTrustScore is applied to *)

ScoreGrid == {Tenths((i * 100) \div ScoreLevels) : i \in 0 .. ScoreLevels}

\* a number above the 0-10 scale
OutOfRange == Tenths(120)

LmValues == ScoreGrid \cup {OutOfRange, NA, OtherString}
SearchValues == ScoreGrid \cup {OutOfRange}

ClassificationArgs == Classifications \cup {"unrecognised", "constructor"}

NoResult == [trustScore |-> NaN, note |-> Undefined]

TsIdle ==
    /\ tsScores = [aiRating |-> NA, toneAnalysis |-> NA,
                   scholarlyMatch |-> Num(0, 1), webReinforced |-> Num(0, 1)]
    /\ tsClassification = "general_knowledge"
    /\ tsResult = NoResult
    /\ tsPc = "call"

TsInit ==
    /\ tsScores \in [aiRating : LmValues, toneAnalysis : LmValues,
                     scholarlyMatch : SearchValues, webReinforced : SearchValues]
    /\ tsClassification \in ClassificationArgs
    /\ tsResult = NoResult
    /\ tsPc = "call"

CalculateTrustScore ==
    /\ tsPc = "call"
    /\ tsResult' = calculateTrustScore(tsScores, tsClassification)
    /\ tsPc' = "done"
    /\ UNCHANGED <<tsScores, tsClassification>>
    /\ UNCHANGED tsFrame

-----------------------------------------------------------------------------
(* ClaimScorer.score and ClaimScorer.scoreSingleClaim *)

AI_SCORER_TIMEOUT == 10000
WEB_SCORER_TIMEOUT == 120000

LmSignals == {"aiRating", "toneAnalysis"}
SearchSignals == {"scholarlyMatch", "webReinforced"}
Signals == LmSignals \cup SearchSignals

\* The delay of the timer withTimeout races each scorer against
TimeoutMs(s) == IF s \in LmSignals THEN AI_SCORER_TIMEOUT ELSE WEB_SCORER_TIMEOUT

\* (mutant of DefaultValue: a number is substituted for a slow AI scorer)
DefaultValueNumeric(s) ==
    IF s \in LmSignals THEN Num(0, 1) ELSE [score |-> Num(0, 1), sources |-> <<>>]

\* The defaultValue handed to withTimeout
DefaultValue(s) ==
    IF s \in LmSignals THEN NA ELSE [score |-> Num(0, 1), sources |-> <<>>]

\* What the scorers resolve to when they resolve in time (an 'n/a' answer of
\* an AI scorer is the value the timer substitutes, so the timer covers it)
ScorerValues(s) ==
    IF s \in LmSignals THEN {Tenths(80)}
    ELSE IF s = "scholarlyMatch"
    THEN {[score |-> Num(9, 1), sources |-> <<"nature.com">>]}
    ELSE {[score |-> Num(6, 1), sources |-> <<"bbc.com">>]}

\* A claim whose text is missing: claim.claim.substring throws
NoText == "<undefined>"

\* The i-th claim of the article, classified
ArticleClaim(i) ==
    [id |-> i, claim |-> "text",
     classification |-> IF i % 2 = 1 THEN "empirical_fact" ELSE "general_knowledge"]

\* The batches score is applied to: the first n claims, some without text
Batches ==
    UNION {[1 .. n -> {"text", NoText}] : n \in 0 .. MaxClaims}

BatchClaims(texts) ==
    [i \in DOMAIN texts |-> [ArticleClaim(i) EXCEPT !.claim = texts[i]]]

\* The state of a race: "pending"; "value" (the scorer resolved first, with
\* v); "timeout" (the timer resolved first, with the default v); "rejected"
\* (the scorer rejected first); "abandoned" (a race of a claim whose
\* Promise.all has rejected: the catch block has no reference to it)
PendingRace(s) == [st |-> "pending", v |-> DefaultValue(s)]
RejectedRace(s) == [st |-> "rejected", v |-> DefaultValue(s)]
AbandonedRace(s) == [st |-> "abandoned", v |-> DefaultValue(s)]
PendingRaces == [s \in Signals |-> PendingRace(s)]

Absent == "<absent>"
NoteFailed == "Scoring failed - using default values"

NoSources == [present |-> FALSE, scholar |-> <<>>, web |-> <<>>, all |-> <<>>]

\* The placeholder for a claim scoreSingleClaim has not resolved for
NoRecord(claim) ==
    [resolved |-> FALSE, id |-> claim.id, claim |-> claim.claim,
     classification |-> claim.classification,
     scores |-> [aiRating |-> NA, toneAnalysis |-> NA,
                 scholarlyMatch |-> Num(0, 1), webReinforced |-> Num(0, 1)],
     trustScore |-> Num(0, 1), note |-> Absent, sources |-> NoSources]

\* The record of the normal path, from what the four races resolved to
ScoredClaim(claim, results) ==
    LET aiRating == results["aiRating"].v
        toneAnalysis == results["toneAnalysis"].v
        scholarResult == results["scholarlyMatch"].v
        webResult == results["webReinforced"].v
        scores == [aiRating |-> aiRating, toneAnalysis |-> toneAnalysis,
                   scholarlyMatch |-> scholarResult.score,
                   webReinforced |-> webResult.score]
    IN  CHOOSE scoredClaim \in
          {[resolved |-> TRUE, id |-> claim.id, claim |-> claim.claim,
            classification |-> claim.classification,
            scores |-> scores,
            trustScore |-> r.trustScore,
            note |-> IF r.note # Undefined THEN r.note ELSE Absent,
            sources |-> [present |-> TRUE, scholar |-> scholarResult.sources,
                         web |-> webResult.sources,
                         all |-> scholarResult.sources \o webResult.sources]] :
              r \in {calculateTrustScore(scores, claim.classification)}} : TRUE

\* (mutant of FallbackClaim: the claim's own fields are not copied)
FallbackClaimBare(claim) ==
    [resolved |-> TRUE, id |-> 0, claim |-> NoText,
     classification |-> "general_knowledge",
     scores |-> [aiRating |-> NA, toneAnalysis |-> NA,
                 scholarlyMatch |-> Num(0, 1), webReinforced |-> Num(0, 1)],
     trustScore |-> Num(0, 1), note |-> NoteFailed, sources |-> NoSources]

\* The record of the catch block
FallbackClaim(claim) ==
    [resolved |-> TRUE, id |-> claim.id, claim |-> claim.claim,
     classification |-> claim.classification,
     scores |-> [aiRating |-> NA, toneAnalysis |-> NA,
                 scholarlyMatch |-> Num(0, 1), webReinforced |-> Num(0, 1)],
     trustScore |-> Num(0, 1), note |-> NoteFailed, sources |-> NoSources]

ScIdle ==
    /\ scClaims = <<>>
    /\ scRace = <<>>
    /\ scRecords = <<>>
    /\ scResult = <<>>
    /\ scPc = "call"

ScInit ==
    /\ scClaims \in {BatchClaims(texts) : texts \in Batches}
    /\ scRace = [i \in DOMAIN scClaims |-> PendingRaces]
    /\ scRecords = [i \in DOMAIN scClaims |-> NoRecord(scClaims[i])]
    /\ scResult = <<>>
    /\ scPc = "call"

\* (mutant of AwaitAll: a failed claim fails the whole batch)
AwaitAllFailFast(records) ==
    LET failed == \E i \in DOMAIN records :
                     records[i].resolved /\ records[i].note = NoteFailed
        all == \A i \in DOMAIN records : records[i].resolved
    IN  /\ scResult' = IF failed THEN <<>> ELSE IF all THEN records ELSE scResult
        /\ scPc' = IF failed \/ all THEN "returned" ELSE "scoring"

\* Promise.all over the per-claim promises: score resumes once every
\* scoreSingleClaim has resolved, and returns their records in input order.
AwaitAll(records) ==
    LET all == \A i \in DOMAIN records : records[i].resolved
    IN  /\ scResult' = IF all THEN records ELSE scResult
        /\ scPc' = IF all THEN "returned" ELSE "scoring"

\* score(claims): an empty batch returns [] at once; otherwise every
\* scoreSingleClaim runs up to its await: a claim without text throws at the
\* first log line and resolves to the fallback record, the others start
\* their four scorers and timers.
Score ==
    /\ scPc = "call"
    /\ IF Len(scClaims) = 0
       THEN /\ scResult' = <<>>
            /\ scPc' = "returned"
            /\ UNCHANGED <<scRace, scRecords>>
       ELSE LET records == [i \in DOMAIN scClaims |->
                              IF scClaims[i].claim = NoText
                              THEN FallbackClaim(scClaims[i])
                              ELSE scRecords[i]]
            IN  /\ scRecords' = records
                /\ scRace' = scRace
                /\ AwaitAll(records)
    /\ UNCHANGED scClaims
    /\ UNCHANGED scFrame

\* A race of claim i settles as `outcome`. Promise.all inside
\* scoreSingleClaim rejects at the first rejected race (the catch block
\* returns the fallback record) and resolves once all four have a value (the
\* record is built from them).
Settle(i, s, outcome) ==
    \E results \in {[scRace[i] EXCEPT ![s] = outcome]} :
    \E record \in {IF outcome.st = "rejected" THEN FallbackClaim(scClaims[i])
                    ELSE IF \A t \in Signals : results[t].st \in {"value", "timeout"}
                    THEN ScoredClaim(scClaims[i], results)
                    ELSE scRecords[i]} :
    \E records \in {[scRecords EXCEPT ![i] = record]} :
        /\ scRace' = [scRace EXCEPT ![i] =
                         IF outcome.st = "rejected"
                         THEN [t \in Signals |->
                                 IF t = s THEN outcome ELSE AbandonedRace(t)]
                         ELSE results]
        /\ scRecords' = records
        /\ AwaitAll(records)
        /\ UNCHANGED scClaims
        /\ UNCHANGED scFrame

Racing(i, s) ==
    /\ i \in DOMAIN scClaims
    /\ scPc = "scoring"
    /\ ~scRecords[i].resolved
    /\ scRace[i][s].st = "pending"

\* The scorer of signal s of claim i resolves before its timer
ScorerResolves(i, s) ==
    /\ Racing(i, s)
    /\ \E v \in ScorerValues(s) : Settle(i, s, [st |-> "value", v |-> v])

\* The scorer of signal s of claim i rejects before its timer
ScorerRejects(i, s) ==
    /\ Racing(i, s)
    /\ Settle(i, s, RejectedRace(s))

\* The timer of signal s of claim i fires before its scorer settles. All
\* timers are armed in the same synchronous stretch of score, so those with
\* the shorter delay have fired before one with a longer delay does.
TimerFires(i, s) ==
    /\ Racing(i, s)
    /\ \A j \in DOMAIN scClaims : \A t \in Signals :
          TimeoutMs(t) < TimeoutMs(s) => ~Racing(j, t)
    /\ Settle(i, s, [st |-> "timeout", v |-> DefaultValue(s)])

ScNext ==
    \/ Score
    \/ \E i \in DOMAIN scClaims : \E s \in Signals : ScorerResolves(i, s)
    \/ \E i \in DOMAIN scClaims : \E s \in Signals : ScorerRejects(i, s)
    \/ \E i \in DOMAIN scClaims : \E s \in Signals : TimerFires(i, s)

-----------------------------------------------------------------------------
(* Strings as sequences of characters *)

UpperCase == <<"A", "B", "C", "D", "E", "F", "G", "H", "I", "J", "K", "L", "M",
               "N", "O", "P", "Q", "R", "S", "T", "U", "V", "W", "X", "Y", "Z">>
LowerCase == <<"a", "b", "c", "d", "e", "f", "g", "h", "i", "j", "k", "l", "m",
               "n", "o", "p", "q", "r", "s", "t", "u", "v", "w", "x", "y", "z">>

\* String.prototype.toLowerCase, letter by letter
LowerOf(ch) ==
    IF \E i \in DOMAIN UpperCase : UpperCase[i] = ch
    THEN LowerCase[CHOOSE i \in DOMAIN UpperCase : UpperCase[i] = ch]
    ELSE ch

\* str.includes(sub)
includes(str, sub) ==
    \E i \in 1 .. Len(str) - Len(sub) + 1 : SubSeq(str, i, i + Len(sub) - 1) = sub

\* the characters of the classification names
Chars(classification) ==
    CASE classification = "current_news" -> <<"c", "u", "r", "r", "e", "n", "t", "_", "n", "e", "w", "s">>
      [] classification = "general_knowledge" -> <<"g", "e", "n", "e", "r", "a", "l", "_", "k", "n", "o", "w", "l", "e", "d", "g", "e">>
      [] classification = "empirical_fact" -> <<"e", "m", "p", "i", "r", "i", "c", "a", "l", "_", "f", "a", "c", "t">>
      [] classification = "opinion" -> <<"o", "p", "i", "n", "i", "o", "n">>
      [] OTHER -> <<>>

-----------------------------------------------------------------------------
(* Cache *)

\* Strings are sequences of characters.
Colon == <<":">>

ToLowerCase(str) == [i \in DOMAIN str |-> LowerOf(str[i])]

\* (mutant of generateKey: the classification is left out of the key)
generateKeyOfTypeAndClaim(claim, type, classification) ==
    ToLowerCase(type \o Colon \o claim)

\* `${type}:${classification}:${claim}`.toLowerCase()
generateKey(claim, type, classification) ==
    ToLowerCase(type \o Colon \o classification \o Colon \o claim)

\* the value Cache.get returns for a missing or expired key
Null == "null"

\* (mutant of CacheGet: an entry is expired from its expiry time on, and stays)
CacheGetEarly(c, key, t) ==
    IF key \notin DOMAIN c THEN [hit |-> FALSE, value |-> Null, cache |-> c]
    ELSE IF t >= c[key].expiresAt
    THEN [hit |-> FALSE, value |-> Null, cache |-> c]
    ELSE [hit |-> TRUE, value |-> c[key].value, cache |-> c]

\* Cache.get at time t: the value (hit: an entry was found and had not
\* expired), and the cache after the lazy eviction
CacheGet(c, key, t) ==
    IF key \notin DOMAIN c THEN [hit |-> FALSE, value |-> Null, cache |-> c]
    ELSE IF t > c[key].expiresAt
    THEN [hit |-> FALSE, value |-> Null, cache |-> [k \in DOMAIN c \ {key} |-> c[k]]]
    ELSE [hit |-> TRUE, value |-> c[key].value, cache |-> c]

\* Cache.set at time t
CacheSet(c, key, value, ttlSeconds, t) ==
    [k \in DOMAIN c \cup {key} |->
        IF k = key THEN [value |-> value, expiresAt |-> t + ttlSeconds * 1000]
        ELSE c[k]]

-----------------------------------------------------------------------------
(* ClaimClassifier.classify *)

\* CONFIG.cache.ttl, in seconds
CacheTtl == 86400

TypeClassification ==
    <<"c", "l", "a", "s", "s", "i", "f", "i", "c", "a", "t", "i", "o", "n">>

ClassificationKey(claim) == generateKey(claim.claim, TypeClassification, <<>>)

\* a truthy value: neither null nor the empty string
Truthy(v) == v # Null /\ v # ""

validateClassification(classification) ==
    IF classification \in Classifications THEN classification
    ELSE "general_knowledge"

\* checkCache: Cache.get for every claim, in order
RECURSIVE checkCache(_, _, _)
checkCache(claims, c, t) ==
    IF claims = <<>> THEN [results |-> <<>>, cache |-> c]
    ELSE LET got == CacheGet(c, ClassificationKey(Head(claims)), t)
             rest == checkCache(Tail(claims), got.cache, t)
         IN  [results |-> <<got.value>> \o rest.results, cache |-> rest.cache]

\* classifications.find(c => c.id === id): the first match, or none
FindById(classifications, id) ==
    LET hits == {k \in DOMAIN classifications : classifications[k].id = id}
    IN  IF hits = {} THEN [found |-> FALSE, classification |-> Null]
        ELSE [found |-> TRUE,
              classification |->
                  classifications[CHOOSE k \in hits : \A h \in hits : k <= h].classification]

\* cacheClassifications: Cache.set for every claim that has a match
RECURSIVE cacheClassifications(_, _, _, _)
cacheClassifications(claims, classifications, c, t) ==
    IF claims = <<>> THEN c
    ELSE LET claim == Head(claims)
             match == FindById(classifications, claim.id)
             c1 == IF match.found
                   THEN CacheSet(c, ClassificationKey(claim), match.classification,
                                 CacheTtl, t)
                   ELSE c
         IN  cacheClassifications(Tail(claims), classifications, c1, t)

\* claims.filter((claim, idx) => !cachedResults[idx])
Uncached(claims, cachedResults) ==
    LET RECURSIVE Filter(_)
        Filter(k) == IF k > Len(claims) THEN <<>>
                     ELSE (IF Truthy(cachedResults[k]) THEN <<>> ELSE <<claims[k]>>)
                          \o Filter(k + 1)
    IN  Filter(1)

Classified(claim, classification) ==
    [id |-> claim.id, claim |-> claim.claim, classification |-> classification]

\* the early return when every claim was cached
AllCachedResults(claims, cachedResults) ==
    [k \in DOMAIN claims |-> Classified(claims[k], cachedResults[k])]

\* the return when batchClassify answered null
\* (mutant of UnavailableResults: every claim gets the default, cached or not)
UnavailableResultsAllDefault(claims, cachedResults) ==
    [k \in DOMAIN claims |-> Classified(claims[k], "general_knowledge")]

UnavailableResults(claims, cachedResults) ==
    [k \in DOMAIN claims |->
        Classified(claims[k],
                   IF Truthy(cachedResults[k]) THEN cachedResults[k]
                   ELSE "general_knowledge")]

\* the merge of cached and new results
MergedResults(claims, cachedResults, classifications) ==
    [k \in DOMAIN claims |->
        LET match == FindById(classifications, claims[k].id)
            classification ==
                IF Truthy(cachedResults[k]) THEN cachedResults[k]
                ELSE IF match.found /\ Truthy(match.classification)
                THEN match.classification
                ELSE "general_knowledge"
        IN  Classified(claims[k], validateClassification(classification))]

\* the return of the catch block
\* (mutant of FailedResults: the cached classifications are kept)
FailedResultsKeepCached(claims, cachedResults) ==
    [k \in DOMAIN claims |->
        Classified(claims[k],
                   IF k \in DOMAIN cachedResults /\ Truthy(cachedResults[k])
                   THEN cachedResults[k] ELSE "general_knowledge")]

FailedResults(claims, cachedResults) ==
    [k \in DOMAIN claims |-> Classified(claims[k], "general_knowledge")]

\* The claim texts of the articles
Texts == {<<"A">>, <<"b">>}

\* The claims ClaimExtractor hands over: claim_1, claim_2, ... in order
ExtractedClaims ==
    UNION {{[k \in 1 .. n |-> [id |-> k, claim |-> texts[k]]] :
              texts \in [1 .. n -> Texts]} : n \in 0 .. MaxBatch}

\* What the remote classifier may say of an item; batchClassify turns a
\* missing or empty answer, and any failure of the request, into
\* general_knowledge
RemoteValues == Classifications \cup {"opinion"}

\* batchClassify with a key configured: an entry per item, under its id
batchClassify(items, answers) ==
    [k \in DOMAIN items |-> [id |-> items[k].id, classification |-> answers[k]]]

\* the step of the clock: what is cached before a step has expired after it
TickMs == CacheTtl * 1000 + 1

ClIdle ==
    /\ cache = <<>>
    /\ now = 0
    /\ apiKey = FALSE
    /\ clClaims = <<>>
    /\ clCached = <<>>
    /\ clResult = <<>>
    /\ clPath = "none"
    /\ clPc = "idle"

ClInit ==
    /\ cache = <<>>
    /\ now = 0
    /\ apiKey \in BOOLEAN
    /\ clClaims = <<>>
    /\ clCached = <<>>
    /\ clResult = <<>>
    /\ clPath = "none"
    /\ clPc = "idle"

Return(results, path) ==
    /\ clResult' = results
    /\ clPath' = path
    /\ clPc' = "returned"

\* classify(claims) up to its first wait for the network. debugThrows: the
\* page denies access to localStorage, so Logger.debug (isDebugMode) throws.
Classify(claims, debugThrows) ==
    /\ clPc \in {"idle", "returned"}
    /\ clClaims' = claims
    /\ IF Len(claims) = 0
       THEN /\ Return(<<>>, "empty")
            /\ clCached' = <<>>
            /\ UNCHANGED cache
       ELSE \E checked \in {checkCache(claims, cache, now)} :
            /\ cache' = checked.cache
            /\ clCached' = checked.results
            /\ IF debugThrows
               THEN Return(FailedResults(claims, checked.results), "failed")
               ELSE IF Len(Uncached(claims, checked.results)) = 0
               THEN Return(AllCachedResults(claims, checked.results), "cached")
               ELSE /\ clPc' = "remote"
                    /\ UNCHANGED <<clResult, clPath>>
    /\ UNCHANGED <<now, apiKey>>
    /\ UNCHANGED clFrame

\* API.retry(batchClassify) resolves to null: no key is configured
RemoteUnavailable ==
    /\ clPc = "remote"
    /\ ~apiKey
    /\ Return(UnavailableResults(clClaims, clCached), "unavailable")
    /\ UNCHANGED <<cache, now, apiKey, clClaims, clCached>>
    /\ UNCHANGED clFrame

\* API.retry(batchClassify) resolves to the classifications: they are
\* written to the cache and merged with the cached ones
RemoteClassifies ==
    /\ clPc = "remote"
    /\ apiKey
    /\ \E uncachedClaims \in {Uncached(clClaims, clCached)} :
       \E answers \in [DOMAIN uncachedClaims -> RemoteValues] :
       \E classifications \in {batchClassify(uncachedClaims, answers)} :
          /\ cache' = cacheClassifications(uncachedClaims, classifications, cache, now)
          /\ Return(MergedResults(clClaims, clCached, classifications), "classified")
    /\ UNCHANGED <<now, apiKey, clClaims, clCached>>
    /\ UNCHANGED clFrame

\* API.setApiKey, or the key being removed from storage
SetApiKey(present) ==
    /\ apiKey # present
    /\ apiKey' = present
    /\ UNCHANGED <<cache, now, clClaims, clCached, clResult, clPath, clPc>>
    /\ UNCHANGED clFrame

\* time passes
Tick ==
    /\ now + TickMs <= MaxTicks * TickMs
    /\ now' = now + TickMs
    /\ UNCHANGED <<cache, apiKey, clClaims, clCached, clResult, clPath, clPc>>
    /\ UNCHANGED clFrame

ClNext ==
    \/ \E claims \in ExtractedClaims : \E debugThrows \in BOOLEAN :
          Classify(claims, debugThrows)
    \/ RemoteUnavailable
    \/ RemoteClassifies
    \/ \E present \in BOOLEAN : SetApiKey(present)
    \/ Tick

-----------------------------------------------------------------------------
(* Properties of calculateTrustScore *)

Zero == Num(0, 1)
Ten == Num(10, 1)

InScale(x) == TypeofNumber(x) /\ ~IsNaN(x) /\ Leq(Zero, x) /\ Leq(x, Ten)
MultipleOfTenth(x) == ~IsNaN(x) /\ (10 * x.n) % x.d = 0

\* a language-model signal is unavailable when its value is not a number
Unavailable(v) == v.type # "number"

\* the value of a signal in tenths, and the weight configured for it (for an
\* unrecognised classification: the general_knowledge one) in thousandths
InTenths(x) == (10 * x.n) \div x.d
ConfiguredWeight(classification, s) ==
    LET w == SCORING_WEIGHTS[IF classification \in Classifications
                             THEN classification ELSE "general_knowledge"][s]
    IN  (1000 * w.n) \div w.d

\* round(sum over S of value * (weight / sum over S of the weights), 1), as a
\* number of tenths (the sum of the weights over S is not 0)
RenormalizedTenths(scores, classification, S) ==
    LET RECURSIVE Sum(_, _)
        Sum(f, T) == IF T = {} THEN 0
                     ELSE LET t == CHOOSE t \in T : TRUE
                          IN  f[t] + Sum(f, T \ {t})
        total == Sum([s \in S |-> ConfiguredWeight(classification, s)], S)
        weighted == Sum([s \in S |->
                           InTenths(scores[s]) * ConfiguredWeight(classification, s)], S)
    IN  (2 * weighted + total) \div (2 * total)

\* the classification has a weight vector: its own or the default one
HasWeights(classification) == classification \notin ObjectPrototypeNames

NumericInputs(scores, S) == \A s \in S : TypeofNumber(scores[s]) /\ ~IsNaN(scores[s])

\* C1: for every classification, if every available signal value is a number
\* in [0,10], the trustScore returned lies in [0,10] and is a multiple of 0.1.
C1_TrustScoreInScale ==
    ( /\ tsPc = "done"
      /\ \A s \in LmSignals : Unavailable(tsScores[s]) \/ InScale(tsScores[s])
      /\ \A s \in SearchSignals : InScale(tsScores[s]) )
    => InScale(tsResult.trustScore) /\ MultipleOfTenth(tsResult.trustScore)

\* C2: when exactly one of the AI-credibility and tone signals is
\* unavailable, the trustScore is the sum over the three remaining signals of
\* value x (configured weight / sum of the three remaining configured
\* weights), rounded to one decimal.
C2_RenormalizedOverThree ==
    \A missing \in LmSignals :
        LET rest == Signals \ {missing}
        IN  ( /\ tsPc = "done"
              /\ HasWeights(tsClassification)
              /\ Unavailable(tsScores[missing])
              /\ NumericInputs(tsScores, rest) )
            => tsResult.trustScore =
                   Tenths(RenormalizedTenths(tsScores, tsClassification, rest))

\* the example of the specification: weights {0.475, 0.05, 0, 0.475}, ai
\* unavailable, tone 8, scholar 0, web 6 give round(6.19.., 1) = 6.2
C2_Witness ==
    /\ tsPc = "done"
    /\ tsClassification = "general_knowledge"
    /\ tsScores = [aiRating |-> NA, toneAnalysis |-> Tenths(80),
                   scholarlyMatch |-> Tenths(0), webReinforced |-> Tenths(60)]
    /\ tsResult.trustScore = Tenths(62)

\* C3: when both language-model signals are unavailable, the trustScore is
\* computed from the scholarly and web values alone: their configured
\* weights renormalized to sum to 1 when the combined weight is not 0, and
\* (scholarly + web) / 2 when it is 0.
C3_ScholarAndWebOnly ==
    ( /\ tsPc = "done"
      /\ HasWeights(tsClassification)
      /\ \A s \in LmSignals : Unavailable(tsScores[s])
      /\ NumericInputs(tsScores, SearchSignals) )
    => tsResult.trustScore =
         IF  ConfiguredWeight(tsClassification, "scholarlyMatch")
               + ConfiguredWeight(tsClassification, "webReinforced") # 0
         THEN Tenths(RenormalizedTenths(tsScores, tsClassification, SearchSignals))
         ELSE Tenths((InTenths(tsScores["scholarlyMatch"])
                        + InTenths(tsScores["webReinforced"]) + 1) \div 2)

\* empirical_fact, scholar 8, web 6: (8 * 0.45 + 6 * 0.25) / 0.7 = 7.28..
C3_Witness ==
    /\ tsPc = "done"
    /\ tsClassification = "empirical_fact"
    /\ tsScores = [aiRating |-> NA, toneAnalysis |-> OtherString,
                   scholarlyMatch |-> Tenths(80), webReinforced |-> Tenths(60)]
    /\ tsResult.trustScore = Tenths(73)

\* the classifications whose configured scholarly weight is 0
ScholarlyWeightZero ==
    {c \in Classifications : ConfiguredWeight(c, "scholarlyMatch") = 0}

\* a current_news or general_knowledge claim was scored with both
\* language-model signals unavailable and numeric scholarly and web scores
WebOnlyCase ==
    /\ tsPc = "done"
    /\ tsClassification \in ScholarlyWeightZero
    /\ \A s \in LmSignals : Unavailable(tsScores[s])
    /\ NumericInputs(tsScores, SearchSignals)

\* C32 as stated: for a current_news or general_knowledge claim whose
\* AI-credibility and tone signals are both unavailable, the trustScore is
\* the unweighted average (scholarly + web) / 2 rounded to one decimal
C32_UnweightedAverage ==
    WebOnlyCase =>
        tsResult.trustScore =
            Tenths((InTenths(tsScores["scholarlyMatch"])
                      + InTenths(tsScores["webReinforced"]) + 1) \div 2)

\* C32 amended: for such a claim the trustScore is the web score rounded to
\* one decimal, whatever the scholarly score: the weights 0 and 0.475
\* renormalize to 0 and 1
C32_WebScoreAlone ==
    WebOnlyCase => tsResult.trustScore = Tenths(InTenths(tsScores["webReinforced"]))

\* general_knowledge, scholar 10, web 4: the trustScore is 4, not the
\* average 7
C32_Witness ==
    /\ tsPc = "done"
    /\ tsClassification = "general_knowledge"
    /\ tsScores = [aiRating |-> NA, toneAnalysis |-> NA,
                   scholarlyMatch |-> Tenths(100), webReinforced |-> Tenths(40)]
    /\ tsResult.trustScore = Tenths(40)

-----------------------------------------------------------------------------
(* Properties of score and scoreSingleClaim *)

\* the record of claim i came from the normal path
NormalPath(i) == scRecords[i].resolved /\ scRecords[i].sources.present

\* the note that names the unavailable signals of a record
DegradationNote(scores) ==
    IF Unavailable(scores.aiRating) /\ Unavailable(scores.toneAnalysis) THEN NoteBoth
    ELSE IF Unavailable(scores.aiRating) THEN NoteAi
    ELSE IF Unavailable(scores.toneAnalysis) THEN NoteTone
    ELSE Absent

\* C4: a scored record carries a degradation note exactly when at least one
\* language-model signal is unavailable, the note names the unavailable
\* signal(s), and a record with all four signals available has no note.
C4_DegradationNote ==
    \A i \in DOMAIN scClaims :
        /\ NormalPath(i) => scRecords[i].note = DegradationNote(scRecords[i].scores)
        /\ scRecords[i].resolved =>
              (scRecords[i].note = Absent
                 <=> \A s \in LmSignals : ~Unavailable(scRecords[i].scores[s]))

\* one record with each of the three notes and one without a note cannot be
\* in one batch of two: the witness is the record that lacks only the tone
C4_Witness ==
    \E i \in DOMAIN scClaims :
        /\ NormalPath(i)
        /\ scRecords[i].scores.aiRating = Tenths(80)
        /\ scRecords[i].scores.toneAnalysis = NA
        /\ scRecords[i].note = NoteTone

\* the score a record holds for a signal whose race resolved to v
SignalOf(s, v) == IF s \in LmSignals THEN v ELSE v.score

\* C5 (safety part): a race the timer won resolved to the per-signal default
\* ('n/a', or score 0 with no sources), the record built from it holds that
\* default, and a timeout never leads to the failure path.
TimeoutSubstitutesDefault ==
    \A i \in DOMAIN scClaims :
        /\ \A s \in Signals :
              scRace[i][s].st = "timeout" =>
                 /\ scRace[i][s].v = IF s \in LmSignals THEN NA
                                     ELSE [score |-> Zero, sources |-> <<>>]
                 /\ scRecords[i].resolved =>
                       /\ NormalPath(i)
                       /\ scRecords[i].scores[s] = IF s \in LmSignals THEN NA ELSE Zero
        /\ (scRecords[i].resolved /\ ~scRecords[i].sources.present) =>
              \/ scClaims[i].claim = NoText
              \/ \E s \in Signals : scRace[i][s].st = "rejected"

\* C5: when a scorer has not resolved as its timeout fires, the default is
\* used in its place and no error is raised; and scoreSingleClaim eventually
\* returns a record for every claim, whether or not the scorers resolve.
C5_TimeoutThenReturn ==
    /\ []TimeoutSubstitutesDefault
    /\ <>[](\A i \in DOMAIN scClaims : scRecords[i].resolved)

\* no scorer of the claim ever resolved, and the record is there
C5_Witness ==
    \E i \in DOMAIN scClaims :
        /\ \A s \in Signals : scRace[i][s].st = "timeout"
        /\ NormalPath(i)
        /\ scRecords[i].scores = [aiRating |-> NA, toneAnalysis |-> NA,
                                  scholarlyMatch |-> Zero, webReinforced |-> Zero]

CarriesClaim(record, claim) ==
    /\ record.resolved
    /\ record.id = claim.id
    /\ record.claim = claim.claim
    /\ record.classification = claim.classification

\* C6: score returns one record per input claim, in input order, each with
\* the fields of its claim, whatever the interleaving and whichever claims
\* fail; and a record, once produced, is not changed by what happens to
\* another claim.
C6_OneRecordPerClaim ==
    /\ [](scPc = "returned" =>
            /\ Len(scResult) = Len(scClaims)
            /\ \A i \in DOMAIN scClaims : CarriesClaim(scResult[i], scClaims[i]))
    /\ [][\A i \in DOMAIN scClaims :
            scRecords[i].resolved => scRecords'[i] = scRecords[i]]_vars

\* a batch in which one claim failed and another was scored normally
C6_Witness ==
    /\ scPc = "returned"
    /\ Len(scResult) >= 2
    /\ \E i, j \in DOMAIN scResult :
          /\ scResult[i].note = NoteFailed
          /\ \E s \in Signals : scRace[i][s].st = "rejected"
          /\ scResult[j].sources.present
          /\ scResult[j].trustScore # Zero

\* scoring claim i raised an exception
Threw(i) ==
    \/ scPc # "call" /\ scClaims[i].claim = NoText
    \/ \E s \in Signals : scRace[i][s].st = "rejected"

\* C7: if an exception is raised while scoring a claim, scoreSingleClaim
\* returns a record with the claim's own fields, 'n/a' for aiRating and
\* toneAnalysis, 0 for scholarlyMatch, webReinforced and trustScore, and the
\* note that scoring failed; the record is in the result of score.
C7_FallbackRecord ==
    \A i \in DOMAIN scClaims :
        Threw(i) =>
            /\ CarriesClaim(scRecords[i], scClaims[i])
            /\ scRecords[i].scores = [aiRating |-> NA, toneAnalysis |-> NA,
                                      scholarlyMatch |-> Zero, webReinforced |-> Zero]
            /\ scRecords[i].trustScore = Zero
            /\ scRecords[i].note = NoteFailed
            /\ scPc = "returned" => scResult[i] = scRecords[i]

\* the web scorer's race rejected and score() returned the claim's fallback record
C7_Witness ==
    /\ scPc = "returned"
    /\ \E i \in DOMAIN scClaims :
          /\ scClaims[i].claim # NoText
          /\ scRace[i]["webReinforced"].st = "rejected"
          /\ scResult[i].note = NoteFailed

-----------------------------------------------------------------------------
(* Properties of ClaimClassifier.classify *)

Returned(path) == clPc = "returned" /\ clPath = path

\* the result has one entry per input claim, in input order
InInputOrder ==
    /\ Len(clResult) = Len(clClaims)
    /\ \A k \in DOMAIN clClaims :
          clResult[k].id = clClaims[k].id /\ clResult[k].claim = clClaims[k].claim

\* C8: every claim classify returns carries a classification of the closed
\* set {current_news, general_knowledge, empirical_fact}, on every path.
C8_ClassificationInClosedSet ==
    clPc = "returned" =>
        \A k \in DOMAIN clResult : clResult[k].classification \in Classifications

\* C9: when the remote classifier is unavailable, classify returns the
\* claims in input order, those that missed the cache as general_knowledge
\* and those that hit it with what the cache holds for them.
C9_UnavailableFallback ==
    Returned("unavailable") =>
        /\ InInputOrder
        /\ \A k \in DOMAIN clClaims :
              clResult[k].classification =
                  IF ClassificationKey(clClaims[k]) \in DOMAIN cache
                  THEN cache[ClassificationKey(clClaims[k])].value
                  ELSE "general_knowledge"

\* one claim of the batch hit the cache, another missed it
C9_Witness ==
    /\ Returned("unavailable")
    /\ \E k, m \in DOMAIN clClaims :
          /\ ClassificationKey(clClaims[k]) \in DOMAIN cache
          /\ clResult[k].classification = "empirical_fact"
          /\ ClassificationKey(clClaims[m]) \notin DOMAIN cache
          /\ clResult[m].classification = "general_knowledge"

\* C10: when a step of classify throws, classify returns the N input claims
\* in input order, every one classified general_knowledge, the cached ones
\* too.
C10_FailSafe ==
    Returned("failed") =>
        /\ InInputOrder
        /\ \A k \in DOMAIN clClaims : clResult[k].classification = "general_knowledge"

\* the failed call had found a claim in the cache, under another category
C10_Witness ==
    /\ Returned("failed")
    /\ \E k \in DOMAIN clClaims :
          /\ clCached[k] = "empirical_fact"
          /\ clResult[k].classification = "general_knowledge"

-----------------------------------------------------------------------------
(* Cache.get, Cache.set and Cache.clear called directly *)

\* The keys callers pass: Cache.generateKey of a claim text
CacheKeys == {ClassificationKey([claim |-> t]) : t \in Texts}

\* The values callers store
CacheValues == {"current_news", "empirical_fact"}

\* The steps of the clock: one millisecond, or a whole TTL
ClockSteps == {1, CacheTtl * 1000}

NoGet == [called |-> FALSE, key |-> <<>>, value |-> Null, at |-> 0]

KvIdle ==
    /\ kvLast = <<>>
    /\ kvGot = NoGet

\* await Cache.set(key, value, ttlSeconds)
KvSet(key, value, ttlSeconds) ==
    /\ clPc = "idle"
    /\ cache' = CacheSet(cache, key, value, ttlSeconds, now)
    /\ kvLast' = [k \in DOMAIN kvLast \cup {key} |->
                     IF k = key THEN [value |-> value, ttl |-> ttlSeconds, at |-> now]
                     ELSE kvLast[k]]
    /\ kvGot' = NoGet
    /\ UNCHANGED <<now, apiKey, clClaims, clCached, clResult, clPath, clPc>>
    /\ UNCHANGED kvFrame

\* await Cache.get(key)
KvGet(key) ==
    /\ clPc = "idle"
    /\ \E got \in {CacheGet(cache, key, now)} :
          /\ cache' = got.cache
          /\ kvGot' = [called |-> TRUE, key |-> key, value |-> got.value, at |-> now]
    /\ UNCHANGED kvLast
    /\ UNCHANGED <<now, apiKey, clClaims, clCached, clResult, clPath, clPc>>
    /\ UNCHANGED kvFrame

\* await Cache.clear()
KvClear ==
    /\ clPc = "idle"
    /\ cache # <<>>
    /\ cache' = <<>>
    /\ kvLast' = <<>>
    /\ kvGot' = NoGet
    /\ UNCHANGED <<now, apiKey, clClaims, clCached, clResult, clPath, clPc>>
    /\ UNCHANGED kvFrame

\* Date.now() advances: to within a few milliseconds of a multiple of the TTL
KvAdvance(d) ==
    /\ now + d <= MaxTicks * TickMs
    /\ (now + d) % (CacheTtl * 1000) <= MaxTicks
    /\ now' = now + d
    /\ UNCHANGED <<cache, apiKey, clClaims, clCached, clResult, clPath, clPc>>
    /\ UNCHANGED kvVars
    /\ UNCHANGED kvFrame

KvNext ==
    \/ \E key \in CacheKeys : \E value \in CacheValues : KvSet(key, value, CacheTtl)
    \/ \E key \in CacheKeys : KvGet(key)
    \/ KvClear
    \/ \E d \in ClockSteps : KvAdvance(d)

-----------------------------------------------------------------------------
(* Properties of the cache *)

\* the time up to which the most recent set of key holds
ExpiresAt(key) == kvLast[key].at + kvLast[key].ttl * 1000

\* the most recent set of key had not expired when get was called
LiveAtGet == kvGot.key \in DOMAIN kvLast /\ kvGot.at <= ExpiresAt(kvGot.key)

\* C11: after Cache.set(k, v, ttl) at time t, with no later set or clear of
\* k, Cache.get(k) returns v at every time up to t + ttl * 1000 and null at
\* every later time, and the get that finds the entry expired removes it; a
\* later set replaces value and expiry wholesale; get returns nothing but the
\* value of the most recent set of the key.
C11_TtlCache ==
    /\ \A k \in DOMAIN cache :
          /\ k \in DOMAIN kvLast
          /\ cache[k] = [value |-> kvLast[k].value, expiresAt |-> ExpiresAt(k)]
    /\ kvGot.called =>
          /\ kvGot.value = IF LiveAtGet THEN kvLast[kvGot.key].value ELSE Null
          /\ ~LiveAtGet => kvGot.key \notin DOMAIN cache

\* a get after the expiry of an entry that was set: null, and the entry gone
C11_Witness ==
    /\ kvGot.called
    /\ kvGot.key \in DOMAIN kvLast
    /\ kvGot.at > ExpiresAt(kvGot.key)
    /\ kvGot.value = Null
    /\ kvGot.key \notin DOMAIN cache

-----------------------------------------------------------------------------
(* ScholarScorer *)

ACADEMIC_DOMAINS ==
    {<<"e", "d", "u">>, <<"a", "c", ".", "u", "k">>, <<"n", "i", "h", ".", "g", "o", "v">>, <<"n", "a", "t", "u", "r", "e", ".", "c", "o", "m">>, <<"s", "c", "i", "e", "n", "c", "e", ".", "o", "r", "g">>, <<"s", "p", "r", "i", "n", "g", "e", "r", ".", "c", "o", "m">>,
     <<"i", "e", "e", "e", ".", "o", "r", "g">>, <<"a", "c", "m", ".", "o", "r", "g">>, <<"a", "r", "x", "i", "v", ".", "o", "r", "g">>, <<"p", "u", "b", "m", "e", "d">>, <<"r", "e", "s", "e", "a", "r", "c", "h", "g", "a", "t", "e", ".", "n", "e", "t">>}

\* The most results a search is made of in the model
MaxResults == 5

\* (mutant of ScholarCalculateScore: each tier starts one result later)
ScholarCalculateScoreLateTiers(results) ==
    IF Len(results) = 0 THEN 0
    ELSE LET authorityCount ==
                 Cardinality({i \in DOMAIN results :
                     \E acadDomain \in ACADEMIC_DOMAINS :
                         includes(ToLowerCase(results[i].domain), acadDomain)})
             base == IF Len(results) > 15 THEN 5
                     ELSE IF Len(results) > 10 THEN 4
                     ELSE IF Len(results) > 5 THEN 3
                     ELSE IF Len(results) > 2 THEN 2
                     ELSE 1
             score == IF authorityCount >= 5 THEN base + 5
                      ELSE IF authorityCount >= 3 THEN base + 3
                      ELSE IF authorityCount >= 1 THEN base + 2
                      ELSE base
         IN  IF score < 10 THEN score ELSE 10

\* ScholarScorer.calculateScore
ScholarCalculateScore(results) ==
    IF Len(results) = 0 THEN 0
    ELSE LET authorityCount ==
                 Cardinality({i \in DOMAIN results :
                     \E acadDomain \in ACADEMIC_DOMAINS :
                         includes(ToLowerCase(results[i].domain), acadDomain)})
             base == IF Len(results) >= 15 THEN 5
                     ELSE IF Len(results) >= 10 THEN 4
                     ELSE IF Len(results) >= 5 THEN 3
                     ELSE IF Len(results) >= 2 THEN 2
                     ELSE 1
             score == IF authorityCount >= 5 THEN base + 5
                      ELSE IF authorityCount >= 3 THEN base + 3
                      ELSE IF authorityCount >= 1 THEN base + 2
                      ELSE base
         IN  IF score < 10 THEN score ELSE 10

\* What WebSearch.searchScholar resolves to: a results of which are from an
\* academic domain, then n - a that are not ([] also when the search failed)
ScholarResults(n, a) ==
    [i \in 1 .. n |-> [domain |-> IF i <= a THEN <<"N", "a", "t", "u", "r", "e", ".", "c", "o", "m">> ELSE <<"e", "x", "a", "m", "p", "l", "e", ".", "c", "o", "m">>]]

SearchScholarOutcomes ==
    {ScholarResults(n, a) : n \in {0, 1, MaxResults}, a \in {0, MaxResults}}

TypeScholar == <<"s", "c", "h", "o", "l", "a", "r">>

\* The claims and classifications the scorers are called with
ScorerClassifications == Classifications \cup {"opinion"}

NoCall == [scorer |-> "none", claim |-> <<>>, classification |-> ""]
NoOps == [gets |-> 0, sets |-> 0, searches |-> 0]
NoScore == [score |-> NA, sources |-> <<>>]

SrIdle ==
    /\ aiApiKey = FALSE
    /\ aiInitialized = FALSE
    /\ srCall = NoCall
    /\ srOps = NoOps
    /\ srResult = NoScore
    /\ srPc = "idle"

\* the call returns result
SrReturn(result) ==
    /\ srResult' = result
    /\ srPc' = "returned"

\* the cache key of the call in progress
SrKey(call, type) == generateKey(call.claim, type, Chars(call.classification))

\* (mutant of ScholarSkips: no classification is skipped)
ScholarSkipsNone(classification) == FALSE

\* classification !== 'empirical_fact'
ScholarSkips(classification) == classification # "empirical_fact"

\* ScholarScorer.score(claim, classification), up to the wait for the search
ScholarScore(claim, classification) ==
    /\ srPc \in {"idle", "returned"}
    /\ clPc = "idle"
    /\ srCall' = [scorer |-> "scholar", claim |-> claim, classification |-> classification]
    /\ IF ScholarSkips(classification)
       THEN /\ SrReturn([score |-> Num(0, 1), sources |-> <<>>])
            /\ srOps' = NoOps
            /\ UNCHANGED cache
       ELSE \E got \in {CacheGet(cache, SrKey(srCall', TypeScholar), now)} :
            /\ cache' = got.cache
            /\ srOps' = [NoOps EXCEPT !.gets = 1]
            /\ IF got.hit
               THEN SrReturn([score |-> got.value, sources |-> <<>>])
               ELSE /\ srPc' = "remote"
                    /\ UNCHANGED srResult
    /\ UNCHANGED <<aiApiKey, aiInitialized>>
    /\ UNCHANGED <<now, apiKey, clClaims, clCached, clResult, clPath, clPc>>
    /\ UNCHANGED srFrame

\* WebSearch.searchScholar resolves: the score is computed, cached, returned
ScholarSearchResolves(results) ==
    /\ srPc = "remote"
    /\ srCall.scorer = "scholar"
    /\ \E scoreValue \in {Num(ScholarCalculateScore(results), 1)} :
          /\ cache' = CacheSet(cache, SrKey(srCall, TypeScholar), scoreValue, 86400, now)
          /\ SrReturn([score |-> scoreValue, sources |-> results])
    /\ srOps' = [srOps EXCEPT !.sets = 1, !.searches = 1]
    /\ UNCHANGED <<aiApiKey, aiInitialized, srCall>>
    /\ UNCHANGED <<now, apiKey, clClaims, clCached, clResult, clPath, clPc>>
    /\ UNCHANGED srFrame

-----------------------------------------------------------------------------
(* AIScorer *)

Digits == <<"0", "1", "2", "3", "4", "5", "6", "7", "8", "9">>

IsDigit(ch) == \E i \in DOMAIN Digits : Digits[i] = ch
DigitValue(ch) == (CHOOSE i \in DOMAIN Digits : Digits[i] = ch) - 1

\* the values of the longest run of digits of str that starts at position i
RECURSIVE DigitRun(_, _)
DigitRun(str, i) ==
    IF i > Len(str) \/ ~IsDigit(str[i]) THEN <<>>
    ELSE <<DigitValue(str[i])>> \o DigitRun(str, i + 1)

RECURSIVE DecimalValue(_)
DecimalValue(run) ==
    IF run = <<>> THEN 0
    ELSE 10 * DecimalValue(SubSeq(run, 1, Len(run) - 1)) + run[Len(run)]

RECURSIVE PowerOfTen(_)
PowerOfTen(k) == IF k = 0 THEN 1 ELSE 10 * PowerOfTen(k - 1)

\* parseFloat: leading blanks, a sign, digits, a point and digits; what
\* follows the longest such prefix is ignored; NaN when it has no digit.
\* (Exponents and the literal Infinity are not among the answers below.)
parseFloat(str) ==
    LET blanks == CHOOSE k \in 0 .. Len(str) :
                     /\ \A i \in 1 .. k : str[i] = " "
                     /\ k < Len(str) => str[k + 1] # " "
        signed == blanks < Len(str) /\ str[blanks + 1] \in {"-", "+"}
        first == blanks + (IF signed THEN 2 ELSE 1)
        int == DigitRun(str, first)
        dot == first + Len(int)
        frac == IF dot <= Len(str) /\ str[dot] = "." THEN DigitRun(str, dot + 1) ELSE <<>>
        magnitude == DecimalValue(int \o frac)
    IN  IF Len(int) + Len(frac) = 0 THEN NaN
        ELSE Num(IF signed /\ str[blanks + 1] = "-" THEN -magnitude ELSE magnitude,
                 PowerOfTen(Len(frac)))

\* What callOpenAI resolves to: the trimmed content of the answer
OpenAIAnswers ==
    {<<"1", "0", "/", "1", "0">>, <<"1", "0", ".", "5">>,
     <<"-", "1">>, <<"h", "i", "g", "h">>}

ScoreTypes == {"credibility", "tone"}

\* `ai-${scoreType}`
TypeAi(scoreType) ==
    <<"a", "i", "-">> \o (IF scoreType = "credibility" THEN <<"c", "r", "e", "d", "i", "b", "i", "l", "i", "t", "y">> ELSE <<"t", "o", "n", "e">>)

\* (mutant of ValidScore: every number is accepted)
ValidScoreAnyNumber(score) == ~IsNaN(score)

\* !(isNaN(score) || score < 0 || score > 10)
ValidScore(score) == ~IsNaN(score) /\ Leq(Num(0, 1), score) /\ Leq(score, Num(10, 1))

\* AIScorer.score(claim, scoreType, classification), up to the wait for the
\* remote rater. init reads the stored key on the first call only;
\* storageFails: chrome.storage.local.get rejects.
AiScore(claim, scoreType, classification, storageFails) ==
    /\ srPc \in {"idle", "returned"}
    /\ clPc = "idle"
    /\ srCall' = [scorer |-> scoreType, claim |-> claim, classification |-> classification]
    /\ aiInitialized' = TRUE
    /\ aiApiKey' = IF aiInitialized \/ storageFails THEN aiApiKey ELSE apiKey
    /\ IF ~aiApiKey'
       THEN /\ SrReturn([score |-> NA, sources |-> <<>>])
            /\ srOps' = NoOps
            /\ UNCHANGED cache
       ELSE \E got \in {CacheGet(cache, SrKey(srCall', TypeAi(scoreType)), now)} :
            /\ cache' = got.cache
            /\ srOps' = [NoOps EXCEPT !.gets = 1]
            /\ IF got.hit
               THEN SrReturn([score |-> got.value, sources |-> <<>>])
               ELSE /\ srPc' = "remote"
                    /\ UNCHANGED srResult
    /\ UNCHANGED <<now, apiKey, clClaims, clCached, clResult, clPath, clPc>>
    /\ UNCHANGED srFrame

\* callOpenAI resolves with result: a valid score is cached and returned
AiCallResolves(result) ==
    /\ srPc = "remote"
    /\ srCall.scorer \in ScoreTypes
    /\ \E score \in {parseFloat(result)} :
          IF ValidScore(score)
          THEN /\ cache' = CacheSet(cache, SrKey(srCall, TypeAi(srCall.scorer)),
                                    score, 86400, now)
               /\ srOps' = [srOps EXCEPT !.sets = 1, !.searches = 1]
               /\ SrReturn([score |-> score, sources |-> <<>>])
          ELSE /\ UNCHANGED cache
               /\ srOps' = [srOps EXCEPT !.searches = 1]
               /\ SrReturn([score |-> NA, sources |-> <<>>])
    /\ UNCHANGED <<aiApiKey, aiInitialized, srCall>>
    /\ UNCHANGED <<now, apiKey, clClaims, clCached, clResult, clPath, clPc>>
    /\ UNCHANGED srFrame

\* callOpenAI rejects (transport error, API error, no content)
AiCallRejects ==
    /\ srPc = "remote"
    /\ srCall.scorer \in ScoreTypes
    /\ srOps' = [srOps EXCEPT !.searches = 1]
    /\ SrReturn([score |-> NA, sources |-> <<>>])
    /\ UNCHANGED <<aiApiKey, aiInitialized, srCall>>
    /\ UNCHANGED <<cache, now, apiKey, clClaims, clCached, clResult, clPath, clPc>>
    /\ UNCHANGED srFrame

-----------------------------------------------------------------------------
(* WebSearch.analyzeSourceSpectrum and WebScorer *)

MEDIA_BIAS ==
    [left |->
        {<<"n", "y", "t", "i", "m", "e", "s", ".", "c", "o", "m">>, <<"w", "a", "s", "h", "i", "n", "g", "t", "o", "n", "p", "o", "s", "t", ".", "c", "o", "m">>, <<"h", "u", "f", "f", "p", "o", "s", "t", ".", "c", "o", "m">>, <<"h", "u", "f", "f", "i", "n", "g", "t", "o", "n", "p", "o", "s", "t", ".", "c", "o", "m">>,
         <<"m", "o", "t", "h", "e", "r", "j", "o", "n", "e", "s", ".", "c", "o", "m">>, <<"b", "u", "z", "z", "f", "e", "e", "d", "n", "e", "w", "s", ".", "c", "o", "m">>, <<"t", "h", "e", "g", "u", "a", "r", "d", "i", "a", "n", ".", "c", "o", "m">>, <<"m", "s", "n", "b", "c", ".", "c", "o", "m">>,
         <<"c", "n", "n", ".", "c", "o", "m">>, <<"v", "o", "x", ".", "c", "o", "m">>, <<"s", "l", "a", "t", "e", ".", "c", "o", "m">>, <<"t", "h", "e", "d", "a", "i", "l", "y", "b", "e", "a", "s", "t", ".", "c", "o", "m">>, <<"t", "h", "i", "n", "k", "p", "r", "o", "g", "r", "e", "s", "s", ".", "o", "r", "g">>,
         <<"n", "p", "r", ".", "o", "r", "g">>, <<"p", "b", "s", ".", "o", "r", "g">>, <<"p", "o", "l", "i", "t", "i", "c", "o", ".", "c", "o", "m">>, <<"t", "h", "e", "a", "t", "l", "a", "n", "t", "i", "c", ".", "c", "o", "m">>},
     center |->
        {<<"r", "e", "u", "t", "e", "r", "s", ".", "c", "o", "m">>, <<"a", "p", "n", "e", "w", "s", ".", "c", "o", "m">>, <<"b", "b", "c", ".", "c", "o", "m">>, <<"b", "b", "c", ".", "c", "o", ".", "u", "k">>, <<"c", "-", "s", "p", "a", "n", ".", "o", "r", "g">>,
         <<"c", "s", "m", "o", "n", "i", "t", "o", "r", ".", "c", "o", "m">>, <<"u", "s", "a", "t", "o", "d", "a", "y", ".", "c", "o", "m">>, <<"a", "x", "i", "o", "s", ".", "c", "o", "m">>, <<"t", "h", "e", "h", "i", "l", "l", ".", "c", "o", "m">>,
         <<"b", "l", "o", "o", "m", "b", "e", "r", "g", ".", "c", "o", "m">>, <<"m", "a", "r", "k", "e", "t", "w", "a", "t", "c", "h", ".", "c", "o", "m">>, <<"e", "c", "o", "n", "o", "m", "i", "s", "t", ".", "c", "o", "m">>, <<"f", "o", "r", "b", "e", "s", ".", "c", "o", "m">>,
         <<"t", "i", "m", "e", ".", "c", "o", "m">>, <<"n", "e", "w", "s", "w", "e", "e", "k", ".", "c", "o", "m">>, <<"a", "b", "c", "n", "e", "w", "s", ".", "g", "o", ".", "c", "o", "m">>, <<"c", "b", "s", "n", "e", "w", "s", ".", "c", "o", "m">>, <<"n", "b", "c", "n", "e", "w", "s", ".", "c", "o", "m">>},
     right |->
        {<<"f", "o", "x", "n", "e", "w", "s", ".", "c", "o", "m">>, <<"f", "o", "x", "b", "u", "s", "i", "n", "e", "s", "s", ".", "c", "o", "m">>, <<"w", "s", "j", ".", "c", "o", "m">>, <<"n", "a", "t", "i", "o", "n", "a", "l", "r", "e", "v", "i", "e", "w", ".", "c", "o", "m">>,
         <<"d", "a", "i", "l", "y", "w", "i", "r", "e", ".", "c", "o", "m">>, <<"b", "r", "e", "i", "t", "b", "a", "r", "t", ".", "c", "o", "m">>, <<"n", "y", "p", "o", "s", "t", ".", "c", "o", "m">>, <<"w", "a", "s", "h", "i", "n", "g", "t", "o", "n", "t", "i", "m", "e", "s", ".", "c", "o", "m">>,
         <<"t", "h", "e", "b", "l", "a", "z", "e", ".", "c", "o", "m">>, <<"o", "a", "n", "n", ".", "c", "o", "m">>, <<"n", "e", "w", "s", "m", "a", "x", ".", "c", "o", "m">>, <<"d", "a", "i", "l", "y", "c", "a", "l", "l", "e", "r", ".", "c", "o", "m">>,
         <<"t", "o", "w", "n", "h", "a", "l", "l", ".", "c", "o", "m">>, <<"s", "p", "e", "c", "t", "a", "t", "o", "r", ".", "o", "r", "g">>, <<"w", "a", "s", "h", "i", "n", "g", "t", "o", "n", "e", "x", "a", "m", "i", "n", "e", "r", ".", "c", "o", "m">>}]

\* the lean a result is counted under: the first list an entry of which the
\* lower-cased domain includes
SpectrumCategory(resultDomain) ==
    LET domain == ToLowerCase(resultDomain)
        Listed(lean) == \E d \in MEDIA_BIAS[lean] : includes(domain, d)
    IN  IF Listed("left") THEN "left"
        ELSE IF Listed("center") THEN "center"
        ELSE IF Listed("right") THEN "right"
        ELSE "unknown"

\* analyzeSourceSpectrum, from what searchWeb resolved to
analyzeSourceSpectrum(results, excludeDomain) ==
    LET Kept(result) ==
            \/ excludeDomain = <<>>
            \/ ~includes(ToLowerCase(result.domain), ToLowerCase(excludeDomain))
        filteredResults == SelectSeq(results, Kept)
        Count(lean) == Cardinality({i \in DOMAIN filteredResults :
                           SpectrumCategory(filteredResults[i].domain) = lean})
    IN  [analysis |-> [total |-> Len(filteredResults), left |-> Count("left"),
                       center |-> Count("center"), right |-> Count("right"),
                       unknown |-> Count("unknown")],
         results |-> filteredResults]

\* (mutant of BaseScore: the lowest tier for every count)
BaseScoreFlat(total) == 2

\* the base score of WebScorer.calculateScore, from the source count
BaseScore(total) ==
    IF total <= 2 THEN 2 ELSE IF total <= 5 THEN 4 ELSE IF total <= 8 THEN 6 ELSE 7

\* (mutant of WebCalculateScore: no source at all is 'n/a', not 0)
WebCalculateScoreUnavailable(analysis) ==
    IF analysis.total = 0 THEN NA ELSE Num(BaseScore(analysis.total), 1)

\* WebScorer.calculateScore
WebCalculateScore(analysis) ==
    IF analysis.total = 0 THEN Num(0, 1)
    ELSE LET baseScore == Num(BaseScore(analysis.total), 1)
             spectrumCoverage ==
                 Cardinality({lean \in {"left", "center", "right"} : analysis[lean] > 0})
             diversityBonus == IF spectrumCoverage = 3 THEN Num(3, 1)
                               ELSE IF spectrumCoverage = 2 THEN Num(3, 2)
                               ELSE IF spectrumCoverage = 1 THEN Num(1, 2)
                               ELSE Num(0, 1)
             sum == Add(baseScore, diversityBonus)
             finalScore == IF Leq(sum, Num(10, 1)) THEN sum ELSE Num(10, 1)
         IN  RoundToOneDecimal(finalScore)

\* What WebSearch.searchWeb resolves to: l, c, r and u results from a left,
\* a center, a right and an unlisted domain ([] also when the search failed)
WebResults(l, c, r, u) ==
    [i \in 1 .. l + c + r + u |->
        [domain |-> IF i <= l THEN <<"c", "n", "n", ".", "c", "o", "m">>
                    ELSE IF i <= l + c THEN <<"B", "B", "C", ".", "c", "o", "m">>
                    ELSE IF i <= l + c + r THEN <<"f", "o", "x", "n", "e", "w", "s", ".", "c", "o", "m">>
                    ELSE <<"e", "x", "a", "m", "p", "l", "e", ".", "c", "o", "m">>]]

SearchWebOutcomes ==
    {WebResults(0, 0, 0, 0), WebResults(1, 0, 0, 1), WebResults(1, 1, 1, MaxResults - 3)}

TypeWeb == <<"w", "e", "b", "-", "r", "e", "i", "n", "f", "o", "r", "c", "e", "m", "e", "n", "t">>

\* WebScorer.score(claim, classification), up to the wait for the search
WebScore(claim, classification) ==
    /\ srPc \in {"idle", "returned"}
    /\ clPc = "idle"
    /\ srCall' = [scorer |-> "web", claim |-> claim, classification |-> classification]
    /\ \E got \in {CacheGet(cache, SrKey(srCall', TypeWeb), now)} :
          /\ cache' = got.cache
          /\ srOps' = [NoOps EXCEPT !.gets = 1]
          /\ IF got.hit
             THEN SrReturn([score |-> got.value, sources |-> <<>>])
             ELSE /\ srPc' = "remote"
                  /\ UNCHANGED srResult
    /\ UNCHANGED <<aiApiKey, aiInitialized>>
    /\ UNCHANGED <<now, apiKey, clClaims, clCached, clResult, clPath, clPc>>
    /\ UNCHANGED srFrame

\* WebSearch.analyzeSourceSpectrum resolves (it catches its own failures):
\* the score is computed, cached and returned with the results
WebAnalysisResolves(results) ==
    /\ srPc = "remote"
    /\ srCall.scorer = "web"
    /\ \E sourceAnalysisWithResults \in {analyzeSourceSpectrum(results, <<>>)} :
       \E scoreValue \in {WebCalculateScore(sourceAnalysisWithResults.analysis)} :
          /\ cache' = CacheSet(cache, SrKey(srCall, TypeWeb), scoreValue, 86400, now)
          /\ SrReturn([score |-> scoreValue, sources |-> sourceAnalysisWithResults.results])
    /\ srOps' = [srOps EXCEPT !.sets = 1, !.searches = 1]
    /\ UNCHANGED <<aiApiKey, aiInitialized, srCall>>
    /\ UNCHANGED <<now, apiKey, clClaims, clCached, clResult, clPath, clPc>>
    /\ UNCHANGED srFrame

-----------------------------------------------------------------------------
(* The scorers called one after the other *)

ScorerTexts == {<<"A">>}

\* the classifications the cached scorers are called with
CachedClassifications == {"empirical_fact", "general_knowledge"}

SrInit ==
    /\ cache = <<>>
    /\ now = 0
    /\ apiKey \in BOOLEAN
    /\ clClaims = <<>>
    /\ clCached = <<>>
    /\ clResult = <<>>
    /\ clPath = "none"
    /\ clPc = "idle"
    /\ aiApiKey = FALSE
    /\ aiInitialized = FALSE
    /\ srCall = NoCall
    /\ srOps = NoOps
    /\ srResult = NoScore
    /\ srPc = "idle"

SrNext ==
    \/ \E claim \in ScorerTexts : \E classification \in ScorerClassifications :
          ScholarScore(claim, classification)
    \/ \E results \in SearchScholarOutcomes : ScholarSearchResolves(results)
    \/ \E claim \in ScorerTexts : \E scoreType \in ScoreTypes :
       \E classification \in CachedClassifications : \E storageFails \in BOOLEAN :
          AiScore(claim, scoreType, classification, storageFails)
    \/ \E result \in OpenAIAnswers : AiCallResolves(result)
    \/ AiCallRejects
    \/ \E claim \in ScorerTexts : \E classification \in CachedClassifications :
          WebScore(claim, classification)
    \/ \E results \in SearchWebOutcomes : WebAnalysisResolves(results)

-----------------------------------------------------------------------------
(* Properties of the scorers *)

ZeroNoSources == [score |-> Num(0, 1), sources |-> <<>>]

\* a call of ScholarScorer.score for a claim that is not an empirical fact
SkippedScholarCall(call) == call.scorer = "scholar" /\ call.classification # "empirical_fact"

\* C12: for every claim whose classification is not empirical_fact,
\* ScholarScorer.score returns score 0 with an empty source list, without a
\* search and without a read or a write of the cache.
C12_ScholarShortCircuit ==
    /\ [](srPc = "returned" /\ SkippedScholarCall(srCall)
            => srResult = ZeroNoSources /\ srOps = NoOps)
    /\ [][srPc # "remote" /\ SkippedScholarCall(srCall')
            => cache' = cache /\ srPc' = "returned"]_vars

\* a general_knowledge claim was skipped while the cache held an entry
C12_Witness ==
    /\ srPc = "returned"
    /\ srCall.scorer = "scholar"
    /\ srCall.classification = "general_knowledge"
    /\ srResult = ZeroNoSources
    /\ cache # <<>>

\* an entry of the cache whose key was made for the given signal types
CachedUnder(types) ==
    {k \in DOMAIN cache : \E type \in types :
        Len(k) > Len(type) /\ SubSeq(k, 1, Len(type) + 1) = type \o Colon}

AiTypes == {TypeAi(scoreType) : scoreType \in ScoreTypes}

\* C16: AIScorer.score returns a number in [0,10] or 'n/a', from the remote
\* rater or from the cache; an answer that does not parse or lies outside
\* [0,10] yields 'n/a' and leaves the cache as it was; every cache entry
\* under an AI signal key holds a number in [0,10].
C16_AiScoreOrUnavailable ==
    /\ [](/\ srPc = "returned" /\ srCall.scorer \in ScoreTypes
              => srResult.score = NA \/ InScale(srResult.score)
          /\ \A k \in CachedUnder(AiTypes) : InScale(cache[k].value))
    /\ [][srPc = "remote" /\ srCall.scorer \in ScoreTypes /\ srResult'.score = NA
              => cache' = cache]_vars
    /\ [][\A result \in OpenAIAnswers :
            AiCallResolves(result) /\ ~InScale(parseFloat(result))
              => srResult'.score = NA /\ cache' = cache]_vars

\* an AI score answered from the cache, written there by an earlier call
C16_Witness ==
    /\ srPc = "returned"
    /\ srCall.scorer = "credibility"
    /\ srOps = [gets |-> 1, sets |-> 0, searches |-> 0]
    /\ srResult.score = Ten
    /\ CachedUnder(AiTypes) # {}

SearchTypes == {TypeScholar, TypeWeb}

\* C17: ScholarScorer.score and WebScorer.score always resolve to a number in
\* [0,10], never to 'n/a', whether searched or cached; a search that
\* returned nothing gives score 0 with no sources; the value substituted on
\* a timeout is score 0 with no sources.
C17_SearchScoresAreNumbers ==
    /\ srPc = "returned" /\ srCall.scorer \in {"scholar", "web"}
         => /\ InScale(srResult.score)
            /\ srOps.searches = 1 /\ srResult.sources = <<>>
                 => srResult = ZeroNoSources
    /\ \A k \in CachedUnder(SearchTypes) : InScale(cache[k].value)
    /\ DefaultValue("scholarlyMatch") = ZeroNoSources
    /\ DefaultValue("webReinforced") = ZeroNoSources

\* a web search that found nothing: score 0, no sources, after one search
C17_Witness ==
    /\ srPc = "returned"
    /\ srCall.scorer = "web"
    /\ srOps.searches = 1
    /\ srResult = ZeroNoSources

-----------------------------------------------------------------------------
(* WebScorer.calculateScore applied to the analysis of a search *)

\* The most sources a search is made of
MaxSources == 9

NoAnalysis == [total |-> 0, left |-> 0, center |-> 0, right |-> 0, unknown |-> 0]

WcIdle ==
    /\ wcResults = <<>>
    /\ wcAnalysis = NoAnalysis
    /\ wcScore = Num(0, 1)
    /\ wcPc = "idle"

WcInit ==
    /\ wcResults \in {WebResults(l, c, r, u) :
                        l \in 0 .. MaxSources, c \in 0 .. MaxSources,
                        r \in 0 .. MaxSources, u \in 0 .. MaxSources}
    /\ Len(wcResults) <= MaxSources
    /\ wcAnalysis = NoAnalysis
    /\ wcScore = Num(0, 1)
    /\ wcPc = "call"

\* analyzeSourceSpectrum(claim), then calculateScore of its analysis
CalculateWebScore ==
    /\ wcPc = "call"
    /\ \E analysis \in {analyzeSourceSpectrum(wcResults, <<>>).analysis} :
          /\ wcAnalysis' = analysis
          /\ wcScore' = WebCalculateScore(analysis)
    /\ wcPc' = "done"
    /\ UNCHANGED wcResults
    /\ UNCHANGED wcFrame

-----------------------------------------------------------------------------
(* Properties of WebScorer.calculateScore *)

\* min(10, base + bonus), in tenths: base 2, 4, 6, 7 for total <= 2, <= 5,
\* <= 8, above; bonus 3, 1.5, 0.5, 0 for three, two, one, no lean represented
TierScoreTenths(analysis) ==
    LET base == IF analysis.total <= 2 THEN 20
                ELSE IF analysis.total <= 5 THEN 40
                ELSE IF analysis.total <= 8 THEN 60 ELSE 70
        leans == (IF analysis.left > 0 THEN 1 ELSE 0)
                   + (IF analysis.center > 0 THEN 1 ELSE 0)
                   + (IF analysis.right > 0 THEN 1 ELSE 0)
        bonus == IF leans = 3 THEN 30 ELSE IF leans = 2 THEN 15
                 ELSE IF leans = 1 THEN 5 ELSE 0
    IN  IF base + bonus <= 100 THEN base + bonus ELSE 100

\* the analysis is a split of the sources that remained
SplitOfSources ==
    /\ wcAnalysis.total = Len(wcResults)
    /\ wcAnalysis.total = wcAnalysis.left + wcAnalysis.center
                            + wcAnalysis.right + wcAnalysis.unknown

\* C13 as stated: for every count of remaining sources (total >= 0) and every
\* split, the web reinforcement score is min(10, base + bonus) rounded to one
\* decimal.
C13_TierScoreEveryTotal ==
    wcPc = "done" => SplitOfSources /\ wcScore = Tenths(TierScoreTenths(wcAnalysis))

\* C13 amended: the score is min(10, base + bonus) rounded to one decimal for
\* every count of at least one remaining source, and 0 when no source
\* remains; 9 sources split 3/3/3 give 10.
C13_TierScore ==
    wcPc = "done" =>
        /\ SplitOfSources
        /\ wcAnalysis.total >= 1 => wcScore = Tenths(TierScoreTenths(wcAnalysis))
        /\ wcAnalysis.total = 0 => wcScore = Num(0, 1)
        /\ (wcAnalysis.left = 3 /\ wcAnalysis.center = 3 /\ wcAnalysis.right = 3
              /\ wcAnalysis.total = 9) => wcScore = Num(10, 1)

\* the full-spectrum scenario: 9 sources, 3 left, 3 center, 3 right
C13_Witness ==
    /\ wcPc = "done"
    /\ wcAnalysis = [total |-> 9, left |-> 3, center |-> 3, right |-> 3, unknown |-> 0]
    /\ wcScore = Num(10, 1)

-----------------------------------------------------------------------------
(* DomainBiasResolver: normHost, parent, classify, loadSnapshot *)

\* The core domains and their political lean
DEFAULT_MAP ==
    <<"c", "n", "n", ".", "c", "o", "m">> :> "left" @@
    <<"n", "y", "t", "i", "m", "e", "s", ".", "c", "o", "m">> :> "left" @@
    <<"w", "a", "s", "h", "i", "n", "g", "t", "o", "n", "p", "o", "s", "t", ".", "c", "o", "m">> :> "left" @@
    <<"h", "u", "f", "f", "p", "o", "s", "t", ".", "c", "o", "m">> :> "left" @@
    <<"h", "u", "f", "f", "i", "n", "g", "t", "o", "n", "p", "o", "s", "t", ".", "c", "o", "m">> :> "left" @@
    <<"m", "o", "t", "h", "e", "r", "j", "o", "n", "e", "s", ".", "c", "o", "m">> :> "left" @@
    <<"b", "u", "z", "z", "f", "e", "e", "d", "n", "e", "w", "s", ".", "c", "o", "m">> :> "left" @@
    <<"t", "h", "e", "g", "u", "a", "r", "d", "i", "a", "n", ".", "c", "o", "m">> :> "left" @@
    <<"m", "s", "n", "b", "c", ".", "c", "o", "m">> :> "left" @@
    <<"v", "o", "x", ".", "c", "o", "m">> :> "left" @@
    <<"s", "l", "a", "t", "e", ".", "c", "o", "m">> :> "left" @@
    <<"t", "h", "e", "d", "a", "i", "l", "y", "b", "e", "a", "s", "t", ".", "c", "o", "m">> :> "left" @@
    <<"t", "h", "i", "n", "k", "p", "r", "o", "g", "r", "e", "s", "s", ".", "o", "r", "g">> :> "left" @@
    <<"n", "p", "r", ".", "o", "r", "g">> :> "left" @@
    <<"p", "b", "s", ".", "o", "r", "g">> :> "left" @@
    <<"p", "o", "l", "i", "t", "i", "c", "o", ".", "c", "o", "m">> :> "left" @@
    <<"t", "h", "e", "a", "t", "l", "a", "n", "t", "i", "c", ".", "c", "o", "m">> :> "left" @@
    <<"r", "e", "u", "t", "e", "r", "s", ".", "c", "o", "m">> :> "center" @@
    <<"a", "p", "n", "e", "w", "s", ".", "c", "o", "m">> :> "center" @@
    <<"b", "b", "c", ".", "c", "o", "m">> :> "center" @@
    <<"b", "b", "c", ".", "c", "o", ".", "u", "k">> :> "center" @@
    <<"c", "-", "s", "p", "a", "n", ".", "o", "r", "g">> :> "center" @@
    <<"c", "s", "m", "o", "n", "i", "t", "o", "r", ".", "c", "o", "m">> :> "center" @@
    <<"u", "s", "a", "t", "o", "d", "a", "y", ".", "c", "o", "m">> :> "center" @@
    <<"a", "x", "i", "o", "s", ".", "c", "o", "m">> :> "center" @@
    <<"t", "h", "e", "h", "i", "l", "l", ".", "c", "o", "m">> :> "center" @@
    <<"b", "l", "o", "o", "m", "b", "e", "r", "g", ".", "c", "o", "m">> :> "center" @@
    <<"m", "a", "r", "k", "e", "t", "w", "a", "t", "c", "h", ".", "c", "o", "m">> :> "center" @@
    <<"e", "c", "o", "n", "o", "m", "i", "s", "t", ".", "c", "o", "m">> :> "center" @@
    <<"f", "o", "r", "b", "e", "s", ".", "c", "o", "m">> :> "center" @@
    <<"t", "i", "m", "e", ".", "c", "o", "m">> :> "center" @@
    <<"n", "e", "w", "s", "w", "e", "e", "k", ".", "c", "o", "m">> :> "center" @@
    <<"a", "b", "c", "n", "e", "w", "s", ".", "g", "o", ".", "c", "o", "m">> :> "center" @@
    <<"c", "b", "s", "n", "e", "w", "s", ".", "c", "o", "m">> :> "center" @@
    <<"n", "b", "c", "n", "e", "w", "s", ".", "c", "o", "m">> :> "center" @@
    <<"f", "o", "x", "n", "e", "w", "s", ".", "c", "o", "m">> :> "right" @@
    <<"f", "o", "x", "b", "u", "s", "i", "n", "e", "s", "s", ".", "c", "o", "m">> :> "right" @@
    <<"w", "s", "j", ".", "c", "o", "m">> :> "right" @@
    <<"n", "a", "t", "i", "o", "n", "a", "l", "r", "e", "v", "i", "e", "w", ".", "c", "o", "m">> :> "right" @@
    <<"d", "a", "i", "l", "y", "w", "i", "r", "e", ".", "c", "o", "m">> :> "right" @@
    <<"b", "r", "e", "i", "t", "b", "a", "r", "t", ".", "c", "o", "m">> :> "right" @@
    <<"n", "y", "p", "o", "s", "t", ".", "c", "o", "m">> :> "right" @@
    <<"w", "a", "s", "h", "i", "n", "g", "t", "o", "n", "t", "i", "m", "e", "s", ".", "c", "o", "m">> :> "right" @@
    <<"t", "h", "e", "b", "l", "a", "z", "e", ".", "c", "o", "m">> :> "right" @@
    <<"o", "a", "n", "n", ".", "c", "o", "m">> :> "right" @@
    <<"n", "e", "w", "s", "m", "a", "x", ".", "c", "o", "m">> :> "right" @@
    <<"d", "a", "i", "l", "y", "c", "a", "l", "l", "e", "r", ".", "c", "o", "m">> :> "right" @@
    <<"t", "o", "w", "n", "h", "a", "l", "l", ".", "c", "o", "m">> :> "right" @@
    <<"s", "p", "e", "c", "t", "a", "t", "o", "r", ".", "o", "r", "g">> :> "right" @@
    <<"w", "a", "s", "h", "i", "n", "g", "t", "o", "n", "e", "x", "a", "m", "i", "n", "e", "r", ".", "c", "o", "m">> :> "right"

Leans == {"left", "center", "right"}

\* str.startsWith(prefix)
startsWith(str, prefix) ==
    Len(str) >= Len(prefix) /\ SubSeq(str, 1, Len(prefix)) = prefix

\* str.replace(/^prefix/i, '')
StripPrefixIgnoreCase(str, prefix) ==
    IF startsWith(ToLowerCase(str), prefix)
    THEN SubSeq(str, Len(prefix) + 1, Len(str))
    ELSE str

\* new URL(href).hostname for an href that starts with http:// or https://
\* and carries no user information: the characters between the scheme and
\* the first of / ? # :, lower-cased. Anything else, an empty host and a host
\* with a space make URL throw.
UrlHostname(href) ==
    LET scheme == IF startsWith(href, <<"h", "t", "t", "p", "s", ":", "/", "/">>) THEN <<"h", "t", "t", "p", "s", ":", "/", "/">>
                  ELSE IF startsWith(href, <<"h", "t", "t", "p", ":", "/", "/">>) THEN <<"h", "t", "t", "p", ":", "/", "/">>
                  ELSE <<>>
        rest == SubSeq(href, Len(scheme) + 1, Len(href))
        ends == {i \in DOMAIN rest : rest[i] \in {"/", "?", "#", ":"}}
        host == IF ends = {} THEN rest
                ELSE SubSeq(rest, 1, (CHOOSE i \in ends : \A j \in ends : i <= j) - 1)
    IN  IF scheme = <<>> \/ host = <<>> \/ \E i \in DOMAIN host : host[i] = " "
        THEN [throws |-> TRUE, hostname |-> <<>>]
        ELSE [throws |-> FALSE, hostname |-> ToLowerCase(host)]

\* normHost(x)
normHost(x) ==
    LET url == UrlHostname(IF startsWith(x, <<"h", "t", "t", "p">>) THEN x ELSE <<"h", "t", "t", "p", "s", ":", "/", "/">> \o x)
        h == IF url.throws THEN x ELSE url.hostname
    IN  ToLowerCase(StripPrefixIgnoreCase(StripPrefixIgnoreCase(h, <<"w", "w", "w", ".">>), <<"m", ".">>))

\* parent(h): h.split('.'), then the last two pieces joined by '.'
parent(h) ==
    LET dots == {i \in DOMAIN h : h[i] = "."}
        last == CHOOSE i \in dots : \A j \in dots : j <= i
        before == dots \ {last}
    IN  IF dots = {} \/ before = {} THEN h
        ELSE SubSeq(h, (CHOOSE i \in before : \A j \in before : j <= i) + 1, Len(h))

\* Map.prototype.get; undefined is the empty string here (both are falsy)
MapGet(map, key) == IF key \in DOMAIN map THEN map[key] ELSE ""

\* (mutant of classify: the domain includes a listed domain)
classifyBySubstring(map, x) ==
    IF \E k \in DOMAIN map : includes(ToLowerCase(x), k)
    THEN map[CHOOSE k \in DOMAIN map : includes(ToLowerCase(x), k)]
    ELSE "unknown"

\* classify(x) over the active map
classify(map, x) ==
    LET h == normHost(x)
        root == parent(h)
        rec == IF MapGet(map, h) # "" THEN MapGet(map, h) ELSE MapGet(map, root)
    IN  IF rec # "" THEN rec ELSE "unknown"

\* The domains and URLs classify is called with
BiasInputs ==
    {<<"e", "d", "i", "t", "i", "o", "n", ".", "c", "n", "n", ".", "c", "o", "m">>, <<"w", "w", "w", ".", "b", "b", "c", ".", "c", "o", ".", "u", "k">>, <<"m", ".", "b", "b", "c", ".", "c", "o", ".", "u", "k">>, <<"m", ".", "f", "o", "x", "n", "e", "w", "s", ".", "c", "o", "m">>,
     <<"w", "w", "w", ".", "f", "o", "x", "n", "e", "w", "s", ".", "c", "o", "m">>, <<"n", "o", "t", "c", "n", "n", ".", "c", "o", "m">>, <<"c", "n", "n", ".", "c", "o", "m", ".", "f", "a", "k", "e", ".", "s", "i", "t", "e">>, <<"C", "N", "N", ".", "c", "o", "m">>,
     <<"W", "W", "W", ".", "M", ".", "N", "P", "R", ".", "o", "r", "g">>, <<"n", "e", "w", "s", ".", "b", "b", "c", ".", "c", "o", ".", "u", "k">>, <<"w", "w", "w", ".", "a", "b", "c", "n", "e", "w", "s", ".", "g", "o", ".", "c", "o", "m">>,
     <<"h", "t", "t", "p", "s", ":", "/", "/", "w", "w", "w", ".", "r", "e", "u", "t", "e", "r", "s", ".", "c", "o", "m", "/", "w", "o", "r", "l", "d", "?", "x", "=", "1">>, <<"h", "t", "t", "p", ":", "/", "/", "m", ".", "w", "s", "j", ".", "c", "o", "m", ":", "8", "0", "8", "0", "/">>,
     <<"h", "t", "t", "p", "b", "i", "n", ".", "o", "r", "g">>, <<"e", "x", "a", "m", "p", "l", "e", ".", "c", "o", "m">>, <<"l", "o", "c", "a", "l", "h", "o", "s", "t">>, <<"n", "o", "t", " ", "a", " ", "h", "o", "s", "t">>, <<>>}

\* The mappings a snapshot URL serves: { "domain": "bias", ... }
Snapshots ==
    {<<"e", "x", "a", "m", "p", "l", "e", ".", "c", "o", "m">> :> "left" @@ <<"c", "n", "n", ".", "c", "o", "m">> :> "right",
     <<"n", "o", "t", "c", "n", "n", ".", "c", "o", "m">> :> "center" @@ <<"b", "b", "c", ".", "c", "o", ".", "u", "k">> :> "left" @@ <<"c", "o", ".", "u", "k">> :> "right"}

NoSnapshot == [present |-> FALSE, json |-> <<>>]
NoLookup == [x |-> <<>>, result |-> "none", map |-> <<>>]
NoReload == [before |-> <<>>, json |-> <<>>, outcome |-> "none"]

BrIdle ==
    /\ MAP = <<>>
    /\ biasSnapshot = NoSnapshot
    /\ localStorageDefined = FALSE
    /\ brLookup = NoLookup
    /\ lsReload = NoReload
    /\ lsPc = "unloaded"

\* The script is evaluated in a page (localStorage defined) or in a worker
BrInit ==
    /\ MAP = DEFAULT_MAP
    /\ biasSnapshot = NoSnapshot
    /\ localStorageDefined \in BOOLEAN
    /\ brLookup = NoLookup
    /\ lsReload = NoReload
    /\ lsPc = "idle"

\* The page is loaded again: the script is evaluated anew, localStorage stays
ModuleLoads ==
    /\ lsPc # "unloaded"
    /\ MAP' = DEFAULT_MAP
    /\ brLookup' = NoLookup
    /\ lsReload' = NoReload
    /\ lsPc' = "idle"
    /\ UNCHANGED <<biasSnapshot, localStorageDefined>>
    /\ UNCHANGED brFrame

\* classify(x), a synchronous call
BiasClassify(x) ==
    /\ lsPc # "unloaded"
    /\ brLookup' = [x |-> x, result |-> classify(MAP, x), map |-> MAP]
    /\ UNCHANGED <<MAP, biasSnapshot, localStorageDefined, lsReload, lsPc>>
    /\ UNCHANGED brFrame

\* (mutant of LoadSnapshot: the active map is emptied before it is filled)
LoadSnapshotClearsTable ==
    /\ lsPc = "idle"
    /\ lsReload' = [before |-> MAP, json |-> <<>>, outcome |-> "pending"]
    /\ lsPc' = "fetch"
    /\ MAP' = <<>>
    /\ UNCHANGED <<biasSnapshot, localStorageDefined, brLookup>>
    /\ UNCHANGED brFrame

\* loadSnapshot(url) up to the wait for fetch
LoadSnapshot ==
    /\ lsPc = "idle"
    /\ lsReload' = [before |-> MAP, json |-> <<>>, outcome |-> "pending"]
    /\ lsPc' = "fetch"
    /\ UNCHANGED <<MAP, biasSnapshot, localStorageDefined, brLookup>>
    /\ UNCHANGED brFrame

\* the catch of loadSnapshot, entered with the active map m: the snapshot
\* stored by an earlier load, when there is one, becomes the active map
FallbackToCached(m, outcome) ==
    /\ MAP' = IF localStorageDefined /\ biasSnapshot.present
              THEN biasSnapshot.json ELSE m
    /\ lsReload' = [lsReload EXCEPT !.outcome = outcome]
    /\ lsPc' = "idle"

\* fetch resolves with a response; a status that is not ok returns
FetchResolves(ok) ==
    /\ lsPc = "fetch"
    /\ IF ok
       THEN /\ lsPc' = "json"
            /\ UNCHANGED lsReload
       ELSE /\ lsPc' = "idle"
            /\ lsReload' = [lsReload EXCEPT !.outcome = "status not ok"]
    /\ UNCHANGED <<MAP, biasSnapshot, localStorageDefined, brLookup>>
    /\ UNCHANGED brFrame

\* fetch rejects (network error)
FetchRejects ==
    /\ lsPc = "fetch"
    /\ FallbackToCached(MAP, "network error")
    /\ UNCHANGED <<biasSnapshot, localStorageDefined, brLookup>>
    /\ UNCHANGED brFrame

\* r.json() resolves: the active map is replaced, then the snapshot is
\* persisted; setItemThrows: localStorage.setItem throws (quota exceeded)
JsonResolves(json, setItemThrows) ==
    /\ lsPc = "json"
    /\ IF localStorageDefined /\ setItemThrows
       THEN /\ FallbackToCached(json, "persist failed")
            /\ UNCHANGED biasSnapshot
       ELSE /\ MAP' = json
            /\ biasSnapshot' = IF localStorageDefined
                               THEN [present |-> TRUE, json |-> json]
                               ELSE biasSnapshot
            /\ lsReload' = [lsReload EXCEPT !.json = json, !.outcome = "loaded"]
            /\ lsPc' = "idle"
    /\ UNCHANGED <<localStorageDefined, brLookup>>
    /\ UNCHANGED brFrame

\* r.json() rejects (unparsable body)
JsonRejects ==
    /\ lsPc = "json"
    /\ FallbackToCached(MAP, "unparsable body")
    /\ UNCHANGED <<biasSnapshot, localStorageDefined, brLookup>>
    /\ UNCHANGED brFrame

BrNext ==
    \/ ModuleLoads
    \/ \E x \in BiasInputs : BiasClassify(x)
    \/ LoadSnapshot
    \/ \E ok \in BOOLEAN : FetchResolves(ok)
    \/ FetchRejects
    \/ \E json \in Snapshots : \E setItemThrows \in BOOLEAN :
          JsonResolves(json, setItemThrows)
    \/ JsonRejects

-----------------------------------------------------------------------------
(* Properties of DomainBiasResolver *)

\* the last two labels of a host: its suffix that holds exactly one dot and
\* starts the host or follows a dot; the host itself when it has no dot
LastTwoLabels(h) ==
    LET starts == {i \in DOMAIN h :
                     /\ i = 1 \/ h[i - 1] = "."
                     /\ Cardinality({j \in i .. Len(h) : h[j] = "."}) = 1}
    IN  IF starts = {} THEN h
        ELSE SubSeq(h, CHOOSE i \in starts : TRUE, Len(h))

\* what a table says of a host: the host's own entry, else its parent's
TableLean(map, host) ==
    IF host \in DOMAIN map THEN map[host]
    ELSE IF LastTwoLabels(host) \in DOMAIN map THEN map[LastTwoLabels(host)]
    ELSE "unknown"

LookedUp(x) == brLookup.x = x /\ brLookup.map = DEFAULT_MAP

\* C14: classify(x) returns the lean the bias table gives the normalized host
\* of x (lower-cased, leading www. and m. stripped), else the lean it gives
\* the host's last two labels, else unknown; with the core table
\* edition.cnn.com is left, www.bbc.co.uk and m.bbc.co.uk are center,
\* m.foxnews.com and www.foxnews.com are right, notcnn.com is unknown.
C14_ExactThenParentLookup ==
    brLookup.result # "none" =>
        /\ brLookup.result = TableLean(brLookup.map, normHost(brLookup.x))
        /\ brLookup.result \in Leans \cup {"unknown"}
        /\ LookedUp(<<"e", "d", "i", "t", "i", "o", "n", ".", "c", "n", "n", ".", "c", "o", "m">>) => brLookup.result = "left"
        /\ LookedUp(<<"w", "w", "w", ".", "b", "b", "c", ".", "c", "o", ".", "u", "k">>) => brLookup.result = "center"
        /\ LookedUp(<<"m", ".", "b", "b", "c", ".", "c", "o", ".", "u", "k">>) => brLookup.result = "center"
        /\ LookedUp(<<"m", ".", "f", "o", "x", "n", "e", "w", "s", ".", "c", "o", "m">>) => brLookup.result = "right"
        /\ LookedUp(<<"w", "w", "w", ".", "f", "o", "x", "n", "e", "w", "s", ".", "c", "o", "m">>) => brLookup.result = "right"
        /\ LookedUp(<<"n", "o", "t", "c", "n", "n", ".", "c", "o", "m">>) => brLookup.result = "unknown"

\* a host that contains a listed domain as a substring, looked up in the
\* core table
C14_Witness ==
    /\ LookedUp(<<"n", "o", "t", "c", "n", "n", ".", "c", "o", "m">>)
    /\ brLookup.result = "unknown"

ReloadFailures == {"status not ok", "network error", "unparsable body", "persist failed"}

\* C15: a loadSnapshot that failed at any step (status not ok, network
\* error, unparsable body, failure while persisting) leaves the active map
\* as it was when the reload started; a successful one leaves exactly the
\* fetched mapping.
C15_FailedReloadKeepsTable ==
    /\ lsReload.outcome \in ReloadFailures => MAP = lsReload.before
    /\ lsReload.outcome = "loaded" => MAP = lsReload.json

-----------------------------------------------------------------------------
(* Regular expressions over strings: a pattern maps the set of positions *)
(* a match may have reached to the set of positions it may reach next    *)

Digit == {"0", "1", "2", "3", "4", "5", "6", "7", "8", "9"}
Upper == {UpperCase[i] : i \in DOMAIN UpperCase}
Lower == {LowerCase[i] : i \in DOMAIN LowerCase}
Letter == Upper \cup Lower
\* \w and \s
WordChar == Letter \cup Digit \cup {"_"}
WhiteSpace == {" ", "\t", "\n", "\r", "\f"}

\* every position a match may start at
Anywhere(str) == 1 .. Len(str) + 1

\* one character of a class
OneOf(str, from, class) ==
    UNION {{i + 1 : i \in {j \in f : j <= Len(s) /\ s[j] \in class}} :
              s \in {str}, f \in {from}}

\* class*
ManyOf(str, from, class) ==
    UNION {{k \in 1 .. Len(s) + 1 :
               \E i \in f : i <= k /\ \A j \in i .. k - 1 : s[j] \in class} :
              s \in {str}, f \in {from}}

\* class+
SomeOf(str, from, class) == ManyOf(str, OneOf(str, from, class), class)

\* class{atLeast,}
AtLeastOf(str, from, class, atLeast) ==
    UNION {{k \in 1 .. Len(s) + 1 :
               \E i \in f : i + atLeast <= k /\ \A j \in i .. k - 1 : s[j] \in class} :
              s \in {str}, f \in {from}}

\* a literal
Literal(str, from, word) ==
    UNION {{i + Len(word) : i \in {j \in f : /\ j + Len(word) - 1 <= Len(s)
                                              /\ SubSeq(s, j, j + Len(word) - 1) = word}} :
              s \in {str}, f \in {from}}

\* (word|word|...)
AnyWord(str, from, words) ==
    UNION {Literal(s, f, word) : s \in {str}, f \in {from}, word \in words}

\* \b
IsWordChar(str, i) == i >= 1 /\ i <= Len(str) /\ str[i] \in WordChar
Boundary(str, from) ==
    UNION {{i \in f : IsWordChar(s, i - 1) # IsWordChar(s, i)} : s \in {str}, f \in {from}}

\* /\b(word|word|...)\b/.test(str)
HasWord(str, words) ==
    \E s \in {str} : Boundary(s, AnyWord(s, Boundary(s, Anywhere(s)), words)) # {}

\* str.trim()
Trim(str) ==
    CHOOSE trimmed \in
        {IF kept = {} THEN <<>>
         ELSE SubSeq(s, CHOOSE i \in kept : \A j \in kept : i <= j,
                        CHOOSE i \in kept : \A j \in kept : j <= i) :
            s \in {str}, kept \in {{i \in DOMAIN str : str[i] \notin WhiteSpace}}} : TRUE

\* str.endsWith(suffix)
endsWith(str, suffix) ==
    Len(str) >= Len(suffix)
      /\ SubSeq(str, Len(str) - Len(suffix) + 1, Len(str)) = suffix

-----------------------------------------------------------------------------
(* ClaimExtractor.isCheckWorthyClaim *)

MainVerbs ==
    {<<"i", "s">>, <<"a", "r", "e">>, <<"w", "a", "s">>, <<"w", "e", "r", "e">>, <<"b", "e">>,
     <<"b", "e", "e", "n">>, <<"b", "e", "i", "n", "g">>, <<"h", "a", "s">>, <<"h", "a", "v", "e">>,
     <<"h", "a", "d">>, <<"w", "i", "l", "l">>, <<"w", "o", "u", "l", "d">>, <<"c", "a", "n">>,
     <<"c", "o", "u", "l", "d">>, <<"m", "a", "y">>, <<"m", "i", "g", "h", "t">>,
     <<"m", "u", "s", "t">>, <<"s", "h", "a", "l", "l">>, <<"s", "h", "o", "u", "l", "d">>,
     <<"d", "i", "d">>, <<"d", "o", "e", "s">>, <<"d", "o">>, <<"a", "d", "d", "e", "d">>,
     <<"a", "d", "v", "i", "s", "e", "d">>, <<"a", "d", "v", "i", "s", "i", "n", "g">>,
     <<"s", "a", "i", "d">>, <<"r", "u", "l", "e", "d">>,
     <<"r", "e", "q", "u", "i", "r", "e", "d">>, <<"e", "s", "t", "i", "m", "a", "t", "e", "s">>,
     <<"c", "o", "n", "t", "a", "i", "n">>, <<"l", "i", "e">>, <<"o", "w", "n">>,
     <<"v", "a", "r", "i", "e", "s">>, <<"d", "e", "p", "e", "n", "d">>,
     <<"d", "e", "c", "i", "d", "e">>, <<"s", "o", "l", "d">>,
     <<"g", "u", "a", "r", "a", "n", "t", "e", "e", "d">>}

\* /\b(...)\b/i.test(trimmed)
hasMainVerb(lower) == HasWord(lower, MainVerbs)

\* uiPatterns.some(p => p.test(lower))
uiPatterns(lower) ==
    \/ Boundary(lower, AnyWord(lower, {1},
         {<<"c", "l", "i", "c", "k">>, <<"t", "a", "p">>, <<"d", "o", "w", "n", "l", "o", "a", "d">>,
     <<"s", "u", "b", "s", "c", "r", "i", "b", "e">>,
     <<"r", "e", "a", "d", " ", "m", "o", "r", "e">>,
     <<"l", "e", "a", "r", "n", " ", "m", "o", "r", "e">>, <<"w", "a", "t", "c", "h">>,
     <<"l", "i", "s", "t", "e", "n">>, <<"f", "o", "l", "l", "o", "w">>, <<"j", "o", "i", "n">>})) # {}
    \/ HasWord(lower, {<<"c", "l", "i", "c", "k", " ", "h", "e", "r", "e">>})
    \/ HasWord(lower, {<<"s", "i", "g", "n", " ", "u", "p">>})
    \/ Literal(lower, AnyWord(lower, {1}, {<<"r", "e", "l", "a", "t", "e", "d">>, <<"t", "r", "e", "n", "d", "i", "n", "g">>,
     <<"p", "o", "p", "u", "l", "a", "r">>,
     <<"a", "d", "v", "e", "r", "t", "i", "s", "e", "m", "e", "n", "t">>}), <<":">>) # {}

\* subjectiveMarkers.some(p => p.test(lower))
subjectiveMarkers(lower) ==
    \/ HasWord(lower, {<<"i", " ", "t", "h", "i", "n", "k">>, <<"i", " ", "b", "e", "l", "i", "e", "v", "e">>,
     <<"i", " ", "f", "e", "e", "l">>,
     <<"i", "n", " ", "m", "y", " ", "o", "p", "i", "n", "i", "o", "n">>,
     <<"p", "e", "r", "s", "o", "n", "a", "l", "l", "y">>})
    \/ HasWord(lower, {<<"b", "e", "a", "u", "t", "i", "f", "u", "l">>, <<"u", "g", "l", "y">>,
     <<"a", "m", "a", "z", "i", "n", "g">>, <<"t", "e", "r", "r", "i", "b", "l", "e">>})

causalMarkers ==
    {<<"c", "a", "u", "s", "e">>, <<"c", "a", "u", "s", "e", "d">>, <<"c", "a", "u", "s", "e", "s">>,
     <<"c", "a", "u", "s", "i", "n", "g">>, <<"l", "e", "a", "d">>, <<"l", "e", "a", "d", "s">>,
     <<"l", "e", "d">>, <<"l", "e", "a", "d", "i", "n", "g", " ", "t", "o">>,
     <<"r", "e", "s", "u", "l", "t">>, <<"r", "e", "s", "u", "l", "t", "s">>,
     <<"r", "e", "s", "u", "l", "t", "e", "d", " ", "i", "n">>,
     <<"r", "e", "s", "u", "l", "t", "i", "n", "g", " ", "i", "n">>,
     <<"c", "o", "n", "t", "r", "i", "b", "u", "t", "e">>,
     <<"c", "o", "n", "t", "r", "i", "b", "u", "t", "e", "d">>,
     <<"c", "o", "n", "t", "r", "i", "b", "u", "t", "e", "s">>,
     <<"t", "r", "i", "g", "g", "e", "r">>, <<"t", "r", "i", "g", "g", "e", "r", "s">>,
     <<"p", "r", "o", "d", "u", "c", "e">>, <<"p", "r", "o", "d", "u", "c", "e", "d">>,
     <<"p", "r", "o", "d", "u", "c", "e", "s">>, <<"i", "n", "d", "u", "c", "e">>,
     <<"i", "n", "d", "u", "c", "e", "d">>, <<"i", "n", "d", "u", "c", "e", "s">>,
     <<"c", "r", "e", "a", "t", "e">>, <<"c", "r", "e", "a", "t", "e", "d">>,
     <<"c", "r", "e", "a", "t", "e", "s">>}

epistemicVerbs ==
    {<<"c", "o", "n", "c", "l", "u", "d", "e">>, <<"c", "o", "n", "c", "l", "u", "d", "e", "d">>,
     <<"c", "o", "n", "c", "l", "u", "d", "e", "s">>,
     <<"d", "e", "t", "e", "r", "m", "i", "n", "e">>,
     <<"d", "e", "t", "e", "r", "m", "i", "n", "e", "d">>, <<"f", "o", "u", "n", "d">>,
     <<"d", "i", "s", "c", "o", "v", "e", "r">>, <<"d", "i", "s", "c", "o", "v", "e", "r", "e">>,
     <<"d", "i", "s", "c", "o", "v", "e", "r", "d">>,
     <<"d", "i", "s", "c", "o", "v", "e", "r", "s">>, <<"r", "e", "v", "e", "a", "l">>,
     <<"r", "e", "v", "e", "a", "l", "s">>, <<"r", "e", "v", "e", "a", "l", "e", "d">>,
     <<"s", "h", "o", "w">>, <<"s", "h", "o", "w", "s">>, <<"s", "h", "o", "w", "e", "d">>,
     <<"s", "h", "o", "w", "n">>, <<"d", "e", "m", "o", "n", "s", "t", "r", "a", "t", "e">>,
     <<"d", "e", "m", "o", "n", "s", "t", "r", "a", "t", "e", "d">>,
     <<"d", "e", "m", "o", "n", "s", "t", "r", "a", "t", "e", "s">>,
     <<"i", "n", "d", "i", "c", "a", "t", "e">>, <<"i", "n", "d", "i", "c", "a", "t", "e", "d">>,
     <<"i", "n", "d", "i", "c", "a", "t", "e", "s">>, <<"s", "u", "g", "g", "e", "s", "t">>,
     <<"s", "u", "g", "g", "e", "s", "t", "s">>, <<"c", "o", "n", "f", "i", "r", "m">>,
     <<"c", "o", "n", "f", "i", "r", "m", "s">>, <<"e", "s", "t", "a", "b", "l", "i", "s", "h">>,
     <<"e", "s", "t", "a", "b", "l", "i", "s", "h", "e">>,
     <<"e", "s", "t", "a", "b", "l", "i", "s", "h", "s">>, <<"p", "r", "o", "v", "e">>,
     <<"p", "r", "o", "v", "e", "d">>, <<"p", "r", "o", "v", "e", "s">>,
     <<"p", "r", "o", "v", "e", "n">>}

officialActions ==
    {<<"r", "u", "l", "e", "d">>, <<"d", "e", "c", "i", "d", "e", "d">>,
     <<"d", "e", "c", "i", "d", "e">>, <<"a", "p", "p", "r", "o", "v", "e", "d">>,
     <<"r", "e", "q", "u", "i", "r", "e", "d">>, <<"a", "d", "v", "i", "s", "e", "d">>,
     <<"a", "d", "v", "i", "s", "i", "n", "g">>,
     <<"r", "e", "c", "o", "m", "m", "e", "n", "d", "e", "d">>, <<"w", "a", "r", "n", "e", "d">>,
     <<"a", "l", "e", "r", "t">>, <<"r", "e", "c", "a", "l", "l">>, <<"a", "d", "d", "e", "d">>,
     <<"i", "s", "s", "u", "e", "d">>, <<"i", "n", "i", "t", "i", "a", "t", "e", "d">>,
     <<"g", "r", "a", "n", "t", "e", "d">>, <<"g", "r", "a", "n", "t", "i", "n", "g">>}

\* /\d+/.test(trimmed)
hasNumber(trimmed) == \E i \in DOMAIN trimmed : trimmed[i] \in Digit

MeasurementUnits ==
    {<<"m", "i", "l", "l", "i", "o", "n">>, <<"b", "i", "l", "l", "i", "o", "n">>,
     <<"t", "h", "o", "u", "s", "a", "n", "d">>, <<"h", "u", "n", "d", "r", "e", "d">>,
     <<"p", "e", "r", "c", "e", "n", "t">>, <<"%">>, <<"t", "i", "m", "e", "s">>,
     <<"f", "o", "l", "d">>, <<"d", "e", "g", "r", "e", "e", "s">>, <<"y", "e", "a", "r">>,
     <<"y", "e", "a", "r", "s">>, <<"m", "o", "n", "t", "h">>, <<"m", "o", "n", "t", "h", "s">>,
     <<"d", "a", "y">>, <<"d", "a", "y", "s">>, <<"h", "o", "u", "r">>, <<"h", "o", "u", "r", "s">>,
     <<"m", "i", "l", "e">>, <<"m", "i", "l", "e", "s">>, <<"b", "a", "r", "r", "e", "l">>,
     <<"b", "a", "r", "r", "e", "l", "s">>}

\* /\d+\s*(million|...|barrels?)\b/i.test(trimmed)
hasMeasurement(lower) ==
    Boundary(lower,
        AnyWord(lower,
            ManyOf(lower, SomeOf(lower, Anywhere(lower), Digit), WhiteSpace),
            MeasurementUnits)) # {}

\* [A-Z][a-z]+
Capitalized(str, from) == SomeOf(str, OneOf(str, from, Upper), Lower)

\* ([A-Z][a-z]+\s+)
CapitalizedThenSpace(str, from) == SomeOf(str, Capitalized(str, from), WhiteSpace)

Acronyms ==
    {<<"F", "D", "A">>, <<"C", "D", "C">>, <<"W", "H", "O">>, <<"E", "P", "A">>, <<"F", "B", "I">>,
     <<"C", "I", "A">>, <<"N", "A", "S", "A">>, <<"U", "N">>, <<"E", "U">>, <<"U", "K">>,
     <<"U", "S">>, <<"N", "A", "T", "O">>, <<"E", "q", "u", "i", "n", "o", "r">>,
     <<"R", "o", "s", "e", "b", "a", "n", "k">>, <<"S", "h", "e", "t", "l", "a", "n", "d">>,
     <<"S", "u", "p", "r", "e", "m", "e", " ", "C", "o", "u", "r", "t">>}

\* /\b([A-Z][a-z]+\s+){1,3}[A-Z][a-z]+\b/.test(trimmed) || /\b(FDA|...)\b/.test(trimmed)
namedEntities(trimmed) ==
    LET once == CapitalizedThenSpace(trimmed, Boundary(trimmed, Anywhere(trimmed)))
        twice == CapitalizedThenSpace(trimmed, once)
        thrice == CapitalizedThenSpace(trimmed, twice)
    IN  \/ Boundary(trimmed, Capitalized(trimmed, once \cup twice \cup thrice)) # {}
        \/ HasWord(trimmed, Acronyms)

TemporalWords ==
    {<<"y", "e", "s", "t", "e", "r", "d", "a", "y">>, <<"t", "o", "d", "a", "y">>,
     <<"l", "a", "s", "t", " ", "w", "e", "e", "k">>,
     <<"l", "a", "s", "t", " ", "m", "o", "n", "t", "h">>,
     <<"l", "a", "s", "t", " ", "y", "e", "a", "r">>,
     <<"l", "a", "s", "t", " ", "f", "a", "l", "l">>, <<"m", "o", "n", "d", "a", "y">>,
     <<"t", "u", "e", "s", "d", "a", "y">>, <<"w", "e", "d", "n", "e", "s", "d", "a", "y">>,
     <<"t", "h", "u", "r", "s", "d", "a", "y">>, <<"f", "r", "i", "d", "a", "y">>,
     <<"s", "a", "t", "u", "r", "d", "a", "y">>, <<"s", "u", "n", "d", "a", "y">>,
     <<"j", "a", "n", "u", "a", "r", "y">>, <<"f", "e", "b", "r", "u", "a", "r", "y">>,
     <<"m", "a", "r", "c", "h">>, <<"a", "p", "r", "i", "l">>, <<"m", "a", "y">>,
     <<"j", "u", "n", "e">>, <<"j", "u", "l", "y">>, <<"a", "u", "g", "u", "s", "t">>,
     <<"s", "e", "p", "t", "e", "m", "b", "e", "r">>, <<"o", "c", "t", "o", "b", "e", "r">>,
     <<"n", "o", "v", "e", "m", "b", "e", "r">>, <<"d", "e", "c", "e", "m", "b", "e", "r">>}

\* /(19|20)\d{2}/.test(trimmed) || /\b(yesterday|...)\b/i.test(trimmed)
temporal(trimmed, lower) ==
    \/ OneOf(trimmed, OneOf(trimmed, AnyWord(trimmed, Anywhere(trimmed), {<<"1", "9">>, <<"2", "0">>}),
                            Digit), Digit) # {}
    \/ HasWord(lower, TemporalWords)

AttributionWords == {<<"a", "c", "c", "o", "r", "d", "i", "n", "g", " ", "t", "o">>, <<"s", "a", "i", "d">>,
     <<"s", "t", "a", "t", "e", "d">>, <<"t", "o", "l", "d">>,
     <<"e", "x", "p", "l", "a", "i", "n", "e", "d">>, <<"r", "e", "p", "o", "r", "t", "e", "d">>,
     <<"a", "n", "n", "o", "u", "n", "c", "e", "d">>, <<"c", "l", "a", "i", "m", "e", "d">>}

ComparativeWords ==
    {<<"m", "o", "r", "e">>, <<"l", "e", "s", "s">>, <<"h", "i", "g", "h", "e", "r">>,
     <<"l", "o", "w", "e", "r">>, <<"g", "r", "e", "a", "t", "e", "r">>,
     <<"s", "m", "a", "l", "l", "e", "r">>, <<"b", "e", "t", "t", "e", "r">>,
     <<"w", "o", "r", "s", "e">>, <<"i", "n", "c", "r", "e", "a", "s", "e", "d">>,
     <<"d", "e", "c", "r", "e", "a", "s", "e", "d">>, <<"t", "h", "a", "n">>,
     <<"c", "o", "m", "p", "a", "r", "e", "d", " ", "t", "o">>,
     <<"r", "e", "l", "a", "t", "i", "v", "e", " ", "t", "o">>, <<"m", "o", "s", "t">>,
     <<"l", "e", "a", "s", "t">>, <<"h", "i", "g", "h", "e", "s", "t">>,
     <<"l", "o", "w", "e", "s", "t">>, <<"l", "a", "r", "g", "e", "s", "t">>,
     <<"s", "m", "a", "l", "l", "e", "s", "t">>}

ModalVerbs == {<<"c", "a", "n">>, <<"c", "o", "u", "l", "d">>, <<"m", "a", "y">>, <<"m", "i", "g", "h", "t">>,
     <<"m", "u", "s", "t">>, <<"s", "h", "o", "u", "l", "d">>, <<"w", "o", "u", "l", "d">>,
     <<"w", "i", "l", "l">>}

NegationWords == {<<"n", "o", "t">>, <<"n", "o">>, <<"w", "i", "t", "h", "o", "u", "t">>,
     <<"u", "n", "l", "i", "k", "e", "l", "y">>, <<"w", "o", "u", "l", "d", "n", "'", "t">>,
     <<"w", "o", "n", "'", "t">>, <<"h", "a", "s", "n", "'", "t">>,
     <<"h", "a", "v", "e", "n", "'", "t">>, <<"d", "i", "d", "n", "'", "t">>,
     <<"n", "o", "t", " ", "g", "u", "a", "r", "a", "n", "t", "e", "e", "d">>}

VariabilityWords == {<<"v", "a", "r", "i", "e", "s">>, <<"d", "e", "p", "e", "n", "d">>,
     <<"d", "e", "p", "e", "n", "d", "s">>, <<"d", "e", "p", "e", "n", "d", "i", "n", "g">>,
     <<"f", "a", "c", "t", "o", "r">>, <<"f", "a", "c", "t", "o", "r", "s">>,
     <<"i", "n", "f", "l", "u", "e", "n", "c", "e", "d", " ", "b", "y">>,
     <<"a", "f", "f", "e", "c", "t", "e", "d", " ", "b", "y">>}

ConsequenceWords ==
    {<<"i", "m", "p", "a", "c", "t">>, <<"e", "f", "f", "e", "c", "t">>,
     <<"e", "f", "f", "e", "c", "t", "s">>,
     <<"c", "o", "n", "s", "e", "q", "u", "e", "n", "c", "e">>,
     <<"c", "o", "n", "s", "e", "q", "u", "e", "n", "c", "e", "s">>,
     <<"i", "m", "p", "l", "i", "c", "a", "t", "i", "o", "n">>,
     <<"i", "m", "p", "l", "i", "c", "a", "t", "i", "o", "n", "s">>}

\* (mutant of CheckWorthyScoreDoubled: a measurement counts as a number too)
CheckWorthyScoreBoth(trimmed) ==
    LET lower == ToLowerCase(trimmed)
    IN  (IF HasWord(lower, causalMarkers) THEN 4 ELSE 0)
        + (IF HasWord(lower, epistemicVerbs) THEN 4 ELSE 0)
        + (IF HasWord(lower, officialActions) THEN 4 ELSE 0)
        + (IF hasMeasurement(lower) THEN 4 ELSE 0)
        + (IF hasNumber(trimmed) THEN 2 ELSE 0)
        + (IF namedEntities(trimmed) THEN 2 ELSE 0)
        + (IF temporal(trimmed, lower) THEN 2 ELSE 0)
        + (IF HasWord(lower, AttributionWords) \/ includes(trimmed, <<"\"">>) THEN 3 ELSE 0)
        + (IF HasWord(lower, ComparativeWords) THEN 2 ELSE 0)
        + (IF HasWord(lower, ModalVerbs) THEN 1 ELSE 0)
        + (IF HasWord(lower, NegationWords) THEN 1 ELSE 0)
        + (IF HasWord(lower, VariabilityWords) THEN 2 ELSE 0)
        + (IF HasWord(lower, ConsequenceWords) THEN 1 ELSE 0)

\* twice the score of isCheckWorthyClaim (the points are multiples of 0.5)
CheckWorthyScoreDoubled(trimmed) ==
    LET lower == ToLowerCase(trimmed)
    IN  (IF HasWord(lower, causalMarkers) THEN 4 ELSE 0)
        + (IF HasWord(lower, epistemicVerbs) THEN 4 ELSE 0)
        + (IF HasWord(lower, officialActions) THEN 4 ELSE 0)
        + (IF hasMeasurement(lower) THEN 4 ELSE IF hasNumber(trimmed) THEN 2 ELSE 0)
        + (IF namedEntities(trimmed) THEN 2 ELSE 0)
        + (IF temporal(trimmed, lower) THEN 2 ELSE 0)
        + (IF HasWord(lower, AttributionWords) \/ includes(trimmed, <<"\"">>) THEN 3 ELSE 0)
        + (IF HasWord(lower, ComparativeWords) THEN 2 ELSE 0)
        + (IF HasWord(lower, ModalVerbs) THEN 1 ELSE 0)
        + (IF HasWord(lower, NegationWords) THEN 1 ELSE 0)
        + (IF HasWord(lower, VariabilityWords) THEN 2 ELSE 0)
        + (IF HasWord(lower, ConsequenceWords) THEN 1 ELSE 0)

\* (mutant of isCheckWorthyClaim: the score alone decides)
isCheckWorthyClaimByScore(sentence) == CheckWorthyScoreDoubled(Trim(sentence)) >= 5

\* isCheckWorthyClaim(sentence)
isCheckWorthyClaim(sentence) ==
    LET trimmed == Trim(sentence)
        lower == ToLowerCase(trimmed)
    IN  IF Len(trimmed) < 25 THEN FALSE
        ELSE IF endsWith(trimmed, <<"?">>) THEN FALSE
        ELSE IF ~hasMainVerb(lower) THEN FALSE
        ELSE IF uiPatterns(lower) THEN FALSE
        ELSE IF subjectiveMarkers(lower) THEN FALSE
        ELSE CheckWorthyScoreDoubled(trimmed) >= 5

\* The sentences isCheckWorthyClaim is called with: an opening, a body and
\* an end
SentenceOpenings == {<<>>, <<"C", "l", "i", "c", "k", " ", "h", "e", "r", "e", ":", " ">>, <<"I", " ", "t", "h", "i", "n", "k", " ">>, <<" ", " ">>}

SentenceBodies ==
    {<<"t", "h", "e", " ", "F", "D", "A", " ", "s", "a", "i", "d", " ", "p", "r", "i", "c", "e", "s", " ", "r", "o", "s", "e", " ", "5", " ", "p", "e", "r", "c", "e", "n", "t", " ", "i", "n", " ", "2", "0", "2", "0">>,
     <<"p", "r", "i", "c", "e", "s", " ", "r", "o", "s", "e", " ", "s", "h", "a", "r", "p", "l", "y", " ", "a", "c", "r", "o", "s", "s", " ", "a", "l", "l", " ", "t", "h", "e", " ", "m", "a", "r", "k", "e", "t", "s">>,
     <<"t", "h", "e", " ", "b", "e", "a", "u", "t", "i", "f", "u", "l", " ", "b", "r", "i", "d", "g", "e", " ", "w", "a", "s", " ", "b", "u", "i", "l", "t", " ", "i", "n", " ", "1", "9", "9", "0", " ", "b", "y", " ", "J", "o", "h", "n", " ", "S", "m", "i", "t", "h">>,
     <<"i", "t", " ", "w", "a", "s", " ", "f", "o", "u", "n", "d">>,
     <<"s", "i", "g", "n", " ", "u", "p", " ", "b", "e", "c", "a", "u", "s", "e", " ", "t", "h", "e", " ", "s", "t", "u", "d", "y", " ", "h", "a", "s", " ", "s", "h", "o", "w", "n", " ", "3", " ", "m", "i", "l", "l", "i", "o", "n", " ", "c", "a", "s", "e", "s">>,
     <<"t", "h", "e", " ", "c", "o", "u", "r", "t", " ", "r", "u", "l", "e", "d", " ", "t", "h", "a", "t", " ", "t", "h", "e", " ", "t", "a", "x", " ", "i", "s", " ", "h", "i", "g", "h", "e", "r", " ", "t", "h", "a", "n", " ", "b", "e", "f", "o", "r", "e">>}

SentenceEndings == {<<".">>, <<"?">>, <<".", " ">>}

CheckedSentences ==
    {opening \o body \o ending :
        opening \in SentenceOpenings, body \in SentenceBodies, ending \in SentenceEndings}

CwIdle ==
    /\ cwSentence = <<>>
    /\ cwResult = FALSE
    /\ cwPc = "idle"

CwInit ==
    /\ cwSentence \in CheckedSentences
    /\ cwResult = FALSE
    /\ cwPc = "call"

\* isCheckWorthyClaim(sentence) is called and returns
CheckSentence ==
    /\ cwPc = "call"
    /\ cwResult' = isCheckWorthyClaim(cwSentence)
    /\ cwPc' = "done"
    /\ UNCHANGED cwSentence
    /\ UNCHANGED cwFrame

-----------------------------------------------------------------------------
(* Properties of isCheckWorthyClaim *)

\* a structural gate or a rejection filter applies to the sentence
GateApplies(sentence) ==
    LET trimmed == Trim(sentence)
        lower == ToLowerCase(trimmed)
    IN  \/ Len(trimmed) < 25
        \/ trimmed[Len(trimmed)] = "?"
        \/ ~hasMainVerb(lower)
        \/ uiPatterns(lower)
        \/ subjectiveMarkers(lower)

\* C18: isCheckWorthyClaim returns false whenever the trimmed sentence is
\* shorter than 25 characters, ends in '?', has no main-verb marker, matches
\* a call-to-action/UI pattern or holds a strong subjective marker, whatever
\* its score.
C18_GatesReject ==
    cwPc = "done" /\ GateApplies(cwSentence) => cwResult = FALSE

\* a question that is long enough and scores above the threshold
C18_Witness ==
    /\ cwPc = "done"
    /\ Len(Trim(cwSentence)) >= 25
    /\ endsWith(Trim(cwSentence), <<"?">>)
    /\ CheckWorthyScoreDoubled(Trim(cwSentence)) >= 5
    /\ cwResult = FALSE

-----------------------------------------------------------------------------
(* ClaimExtractor.mergeQuotedContent *)

\* the quotation marks of /[""]/g, counted as opening and as closing ones
OpeningQuotes == {"\""}
ClosingQuotes == {"\""}

\* (str.match(/[...]/g) || []).length
CountOf(str, class) == Cardinality({i \in DOMAIN str : str[i] \in class})

\* [A-Z][a-z]+ under the i flag
NameWord(str, from) == SomeOf(str, OneOf(str, from, Letter), Letter)

\* (\s+[A-Z][a-z]+)* under the i flag
RECURSIVE MoreNameWords(_, _)
MoreNameWords(str, reached) ==
    UNION {UNION {IF more \subseteq r THEN r ELSE MoreNameWords(str, r \cup more) :
                    more \in {NameWord(str, SomeOf(str, r, WhiteSpace))}} :
              r \in {reached}}

\* (he|she|they|it|[A-Z][a-z]+(\s+[A-Z][a-z]+)*) under the i flag
Speaker(lower, from) ==
    AnyWord(lower, from, {<<"h", "e">>, <<"s", "h", "e">>, <<"t", "h", "e", "y">>, <<"i", "t">>}) \cup MoreNameWords(lower, NameWord(lower, from))

SaidVerbs ==
    {<<"s", "a", "i", "d">>, <<"s", "t", "a", "t", "e", "d">>, <<"t", "o", "l", "d">>,
     <<"e", "x", "p", "l", "a", "i", "n", "e", "d">>, <<"a", "d", "d", "e", "d">>,
     <<"n", "o", "t", "e", "d">>, <<"c", "o", "n", "t", "i", "n", "u", "e", "d">>,
     <<"e", "m", "p", "h", "a", "s", "i", "z", "e", "d">>,
     <<"r", "e", "p", "o", "r", "t", "e", "d">>, <<"a", "n", "n", "o", "u", "n", "c", "e", "d">>,
     <<"c", "l", "a", "i", "m", "e", "d">>, <<"a", "r", "g", "u", "e", "d">>,
     <<"m", "a", "i", "n", "t", "a", "i", "n", "e", "d">>,
     <<"a", "s", "s", "e", "r", "t", "e", "d">>, <<"d", "e", "c", "l", "a", "r", "e", "d">>,
     <<"r", "e", "v", "e", "a", "l", "e", "d">>, <<"d", "i", "s", "c", "l", "o", "s", "e", "d">>}

\* /[""]\s*,?\s*(he|...)\s+(said|...)\b/i.test(sentence)
endsWithAttribution(sentence) ==
    LET lower == ToLowerCase(sentence)
        quote == OneOf(lower, Anywhere(lower), OpeningQuotes \cup ClosingQuotes)
        comma == ManyOf(lower, quote, WhiteSpace)
        name == ManyOf(lower, comma \cup Literal(lower, comma, <<",">>), WhiteSpace)
        verb == SomeOf(lower, Speaker(lower, name), WhiteSpace)
    IN  Boundary(lower, AnyWord(lower, verb, SaidVerbs)) # {}

ContinuedVerbs == {<<"s", "a", "i", "d">>, <<"s", "t", "a", "t", "e", "d">>, <<"t", "o", "l", "d">>,
     <<"e", "x", "p", "l", "a", "i", "n", "e", "d">>, <<"a", "d", "d", "e", "d">>,
     <<"n", "o", "t", "e", "d">>, <<"c", "o", "n", "t", "i", "n", "u", "e", "d">>,
     <<"e", "m", "p", "h", "a", "s", "i", "z", "e", "d">>}

\* /\b(he|...)\s+(said|...)\b[.!?]*$/i.test(sentence)
hasAttributionEnd(sentence) ==
    LET lower == ToLowerCase(sentence)
        verb == SomeOf(lower, Speaker(lower, Boundary(lower, Anywhere(lower))), WhiteSpace)
        said == Boundary(lower, AnyWord(lower, verb, ContinuedVerbs))
    IN  Len(lower) + 1 \in ManyOf(lower, said, {".", "!", "?"})

LeadingVerbs == {<<"s", "a", "i", "d">>, <<"s", "t", "a", "t", "e", "d">>, <<"t", "o", "l", "d">>,
     <<"e", "x", "p", "l", "a", "i", "n", "e", "d">>, <<"n", "o", "t", "e", "d">>,
     <<"e", "m", "p", "h", "a", "s", "i", "z", "e", "d">>,
     <<"r", "e", "p", "o", "r", "t", "e", "d">>, <<"a", "n", "n", "o", "u", "n", "c", "e", "d">>,
     <<"c", "l", "a", "i", "m", "e", "d">>}

\* /(according to|[A-Z][a-z]+(\s+[A-Z][a-z]+)*\s+(said|...)\b)/i.test(sentence)
hasLeadingAttribution(sentence) ==
    LET lower == ToLowerCase(sentence)
        names == MoreNameWords(lower, NameWord(lower, Anywhere(lower)))
    IN  \/ includes(lower, <<"a", "c", "c", "o", "r", "d", "i", "n", "g", " ", "t", "o">>)
        \/ Boundary(lower, AnyWord(lower, SomeOf(lower, names, WhiteSpace), LeadingVerbs)) # {}

\* /:\s*$/.test(sentence)
endsWithColon(sentence) ==
    Len(sentence) + 1
        \in ManyOf(sentence, Literal(sentence, Anywhere(sentence), <<":">>), WhiteSpace)

\* sentence.includes('"')
hasQuote(sentence) == includes(sentence, <<"\"">>)

\* The most sentences the unbalanced-quote merge looks at (j - i < 4)
QuoteLookahead == 4

\* the inner loop of the unbalanced-quote merge: sentences j, j + 1, ... are
\* appended while j - i < 4, until the quotes balance
RECURSIVE QuoteMerge(_, _, _, _)
QuoteMerge(sentences, i, j, mergedSentence) ==
    IF j <= Len(sentences) /\ j - i < QuoteLookahead
    THEN LET longer == mergedSentence \o <<" ">> \o sentences[j]
         IN  IF CountOf(longer, OpeningQuotes) <= CountOf(longer, ClosingQuotes)
             THEN [j |-> j + 1, mergedSentence |-> longer]
             ELSE QuoteMerge(sentences, i, j + 1, longer)
    ELSE [j |-> j, mergedSentence |-> mergedSentence]

\* (mutant of PushPair: the pair is joined without a space)
PushPairUnspaced(sentences, i, merged, rule) ==
    [i |-> i + 2, merged |-> Append(merged, Trim(sentences[i] \o sentences[i + 1])),
     rule |-> rule]

\* (mutant of PushPair: the pair takes the sentence after it as well)
PushTriple(sentences, i, merged, rule) ==
    [i |-> i + 3, merged |-> Append(merged, Trim(sentences[i] \o <<" ">> \o sentences[i + 1])),
     rule |-> rule]

\* merged.push((sentence + ' ' + next).trim()); i += 2
PushPair(sentences, i, merged, rule) ==
    [i |-> i + 2, merged |-> Append(merged, Trim(sentences[i] \o <<" ">> \o sentences[i + 1])),
     rule |-> rule]

\* One iteration of the while loop of mergeQuotedContent, at sentence i
\* (counted from 1): the next i, the units so far and the rule that applied
MergeIteration(sentences, i, merged) ==
    LET sentence == sentences[i]
        hasNext == i < Len(sentences)
        next == sentences[i + 1]
    IN  IF /\ hasQuote(sentence)
           /\ CountOf(sentence, OpeningQuotes) > CountOf(sentence, ClosingQuotes)
        THEN LET quote == QuoteMerge(sentences, i, i + 1, sentence)
             IN  [i |-> quote.j, merged |-> Append(merged, Trim(quote.mergedSentence)),
                  rule |-> "unbalanced quote"]
        ELSE IF endsWithAttribution(sentence) /\ hasNext /\ hasQuote(next)
        THEN PushPair(sentences, i, merged, "attribution then quote")
        ELSE IF /\ startsWith(Trim(sentence), <<"\"">>)
                /\ hasAttributionEnd(sentence)
                /\ Len(merged) > 0
                /\ hasQuote(merged[Len(merged)])
        THEN [i |-> i + 1,
              merged |-> [merged EXCEPT ![Len(merged)] = Trim(@ \o <<" ">> \o sentence)],
              rule |-> "quote continued"]
        ELSE IF /\ hasLeadingAttribution(sentence) /\ ~hasQuote(sentence) /\ hasNext
                /\ startsWith(Trim(next), <<"\"">>)
        THEN PushPair(sentences, i, merged, "attribution leads to quote")
        ELSE IF endsWithColon(sentence) /\ hasNext
        THEN PushPair(sentences, i, merged, "colon")
        ELSE [i |-> i + 1, merged |-> Append(merged, sentence), rule |-> "none"]

\* mergeQuotedContent(sentences): the loop from sentence i on
RECURSIVE MergeFrom(_, _, _)
MergeFrom(sentences, i, merged) ==
    IF i > Len(sentences) THEN merged
    ELSE LET step == MergeIteration(sentences, i, merged)
         IN  MergeFrom(sentences, step.i, step.merged)

mergeQuotedContent(sentences) == MergeFrom(sentences, 1, <<>>)

\* The sentences mergeQuotedContent is given: up to MaxSentences of these
MaxSentences == 4

MergedSentences ==
    {<<"\"", "W", "e", " ", "w", "i", "l", "l", " ", "w", "i", "n", ",", "\"", " ", "S", "m", "i", "t", "h", " ", "s", "a", "i", "d", ".">>, <<"\"", "I", "t", " ", "i", "s", " ", "o", "v", "e", "r", ".", "\"">>, <<"S", "m", "i", "t", "h", " ", "s", "a", "i", "d", " ", "t", "h", "e", " ", "f", "o", "l", "l", "o", "w", "i", "n", "g", ":">>,
     <<"P", "r", "i", "c", "e", "s", " ", "r", "o", "s", "e", " ", "t", "o", "d", "a", "y", ".">>, <<"\"", "T", "h", "i", "s", " ", "i", "s", " ", "o", "p", "e", "n">>}

SentenceLists ==
    UNION {[1 .. n -> MergedSentences] : n \in 0 .. MaxSentences}

MqIdle ==
    /\ mqSentences = <<>>
    /\ mqI = 0
    /\ mqMerged = <<>>
    /\ mqRule = "none"
    /\ mqPc = "idle"

MqInit ==
    /\ mqSentences \in SentenceLists
    /\ mqI = 1
    /\ mqMerged = <<>>
    /\ mqRule = "none"
    /\ mqPc = "loop"

\* one iteration of the loop
MergeStep ==
    /\ mqPc = "loop"
    /\ mqI <= Len(mqSentences)
    /\ \E step \in {MergeIteration(mqSentences, mqI, mqMerged)} :
          /\ mqI' = step.i
          /\ mqMerged' = step.merged
          /\ mqRule' = step.rule
    /\ UNCHANGED <<mqSentences, mqPc>>
    /\ UNCHANGED mqFrame

\* the loop is left and merged is returned
MergeReturns ==
    /\ mqPc = "loop"
    /\ mqI > Len(mqSentences)
    /\ mqPc' = "done"
    /\ UNCHANGED <<mqSentences, mqI, mqMerged, mqRule>>
    /\ UNCHANGED mqFrame

MqNext == MergeStep \/ MergeReturns

-----------------------------------------------------------------------------
(* Properties of mergeQuotedContent *)

\* C20: mergeQuotedContent terminates and returns no more units than it was
\* given sentences; an application of the unbalanced-quote rule takes at
\* most 4 consecutive sentences, an application of any other rule at most 2.
C20_MergeBounded ==
    /\ <>(mqPc = "done")
    /\ [](Len(mqMerged) <= Len(mqSentences)
            /\ (mqPc = "done" => mqMerged = mergeQuotedContent(mqSentences)))
    /\ [][/\ mqI' > mqI
          /\ mqRule' = "unbalanced quote" => mqI' - mqI <= 4
          /\ mqRule' # "unbalanced quote" => mqI' - mqI <= 2
          /\ Len(mqMerged') <= Len(mqMerged) + 1]_mqI

\* a list of four sentences merged into two units by two two-sentence rules
C20_Witness ==
    /\ mqPc = "done"
    /\ Len(mqSentences) = 4
    /\ Len(mqMerged) = 2
    /\ mqRule = "colon"

-----------------------------------------------------------------------------
(* ClaimExtractor.removeNoiseElements *)

\* the k-th smallest element of a set of numbers
Nth(set, k) == CHOOSE x \in set : Cardinality({y \in set : y < x}) = k - 1

\* str.split(sep) for a one-character separator
split(str, sep) ==
    LET at == {i \in DOMAIN str : str[i] = sep} \cup {0, Len(str) + 1}
    IN  [k \in 1 .. Cardinality(at) - 1 |->
            SubSeq(str, Nth(at, k) + 1, Nth(at, k + 1) - 1)]

\* lines.join(sep), from the i-th line on
RECURSIVE joinFrom(_, _, _)
joinFrom(lines, sep, i) ==
    IF i > Len(lines) THEN <<>>
    ELSE IF i = Len(lines) THEN lines[i]
    ELSE lines[i] \o sep \o joinFrom(lines, sep, i + 1)

join(lines, sep) == joinFrom(lines, sep, 1)

\* str.replace(/word/g, with) for a literal word, from position pos on
RECURSIVE replaceWord(_, _, _, _)
replaceWord(str, word, with, pos) ==
    LET at == {i \in pos .. Len(str) - Len(word) + 1 :
                  SubSeq(str, i, i + Len(word) - 1) = word}
    IN  IF at = {} THEN SubSeq(str, pos, Len(str))
        ELSE LET i == CHOOSE j \in at : \A k \in at : j <= k
             IN  SubSeq(str, pos, i - 1) \o with
                     \o replaceWord(str, word, with, i + Len(word))

\* str.replace(pattern, '') for a global pattern, from position pos on.
\* ends[i] is the set of positions a match starting at i may end at; the
\* patterns of removeNoiseElements are greedy and their last quantifier is
\* followed by nothing that can take its characters, so the match taken
\* is the longest one
RECURSIVE removeMatches(_, _, _)
removeMatches(str, ends, pos) ==
    LET starts == {i \in DOMAIN ends : i >= pos /\ ends[i] # {}}
    IN  IF starts = {} THEN SubSeq(str, pos, Len(str))
        ELSE LET start == CHOOSE i \in starts : \A j \in starts : i <= j
                 end == CHOOSE k \in ends[start] : \A j \in ends[start] : j <= k
             IN  IF end = start
                 THEN SubSeq(str, pos, start) \o removeMatches(str, ends, start + 1)
                 ELSE SubSeq(str, pos, start - 1) \o removeMatches(str, ends, end)

\* the positions where a word starts
StartsOf(str, word) == {i \in Anywhere(str) : Literal(str, {i}, word) # {}}

\* /^\d+\s+(days?|hours?|mins?|weeks?|months?|years?)\s+ago$/i.test(line)
isTimeAgo(lower) ==
    Len(lower) + 1 \in
        Literal(lower,
            SomeOf(lower,
                AnyWord(lower,
                    SomeOf(lower, SomeOf(lower, {1}, Digit), WhiteSpace),
                    {<<"d", "a", "y">>, <<"d", "a", "y", "s">>, <<"h", "o", "u", "r">>, <<"h", "o", "u", "r", "s">>,
     <<"m", "i", "n">>, <<"m", "i", "n", "s">>, <<"w", "e", "e", "k">>, <<"w", "e", "e", "k", "s">>,
     <<"m", "o", "n", "t", "h">>, <<"m", "o", "n", "t", "h", "s">>, <<"y", "e", "a", "r">>,
     <<"y", "e", "a", "r", "s">>}),
                WhiteSpace),
            <<"a", "g", "o">>)

\* /^\d{1,2}:\d{2}(am|pm|AM|PM)/i.test(line)
isClockTime(lower) ==
    LET one == OneOf(lower, {1}, Digit)
        hour == one \cup OneOf(lower, one, Digit)
        minute == OneOf(lower, OneOf(lower, Literal(lower, hour, <<":">>), Digit), Digit)
    IN  AnyWord(lower, minute, {<<"a", "m">>, <<"p", "m">>}) # {}

SharingButtons ==
    {<<"s", "h", "a", "r", "e">>, <<"s", "a", "v", "e">>, <<"f", "a", "c", "e", "b", "o", "o", "k">>,
     <<"t", "w", "i", "t", "t", "e", "r">>, <<"i", "n", "s", "t", "a", "g", "r", "a", "m">>,
     <<"l", "i", "n", "k", "e", "d", "i", "n">>, <<"c", "o", "m", "m", "e", "n", "t", "s">>,
     <<"p", "r", "i", "n", "t">>, <<"e", "m", "a", "i", "l">>, <<"l", "o", "g", "i", "n">>,
     <<"w", "a", "t", "c", "h", " ", "t", "v">>, <<"p", "o", "d", "c", "a", "s", "t", "s">>,
     <<"v", "i", "d", "e", "o">>}

NavigationSections ==
    {<<"p", "e", "r", "s", "o", "n", "a", "l", " ", "f", "i", "n", "a", "n", "c", "e">>,
     <<"e", "c", "o", "n", "o", "m", "y">>, <<"m", "a", "r", "k", "e", "t", "s">>,
     <<"w", "a", "t", "c", "h", "l", "i", "s", "t">>,
     <<"l", "i", "f", "e", "s", "t", "y", "l", "e">>,
     <<"r", "e", "a", "l", " ", "e", "s", "t", "a", "t", "e">>, <<"t", "e", "c", "h">>,
     <<"s", "p", "o", "r", "t", "s">>, <<"o", "p", "i", "n", "i", "o", "n">>,
     <<"a", "b", "o", "u", "t">>}

\* /^(Getty Images|iStock|Fox News|FOXBusiness|By\s+[A-Z])/i.test(line)
isCredit(lower) ==
    \/ AnyWord(lower, {1}, {<<"g", "e", "t", "t", "y", " ", "i", "m", "a", "g", "e", "s">>, <<"i", "s", "t", "o", "c", "k">>,
     <<"f", "o", "x", " ", "n", "e", "w", "s">>,
     <<"f", "o", "x", "b", "u", "s", "i", "n", "e", "s", "s">>}) # {}
    \/ OneOf(lower, SomeOf(lower, Literal(lower, {1}, <<"b", "y">>), WhiteSpace), Lower) # {}

\* /©\s*20\d{2}/i.test(line)
isCopyright(lower) ==
    OneOf(lower,
        OneOf(lower,
            Literal(lower,
                ManyOf(lower, Literal(lower, Anywhere(lower), <<"©">>), WhiteSpace),
                <<"2", "0">>),
            Digit),
        Digit) # {}

LegalNotices == {<<"t", "e", "r", "m", "s", " ", "o", "f", " ", "u", "s", "e">>,
     <<"p", "r", "i", "v", "a", "c", "y", " ", "p", "o", "l", "i", "c", "y">>,
     <<"l", "e", "g", "a", "l", " ", "s", "t", "a", "t", "e", "m", "e", "n", "t">>}

NewsletterPrompts == {<<"s", "i", "g", "n", " ", "u", "p">>, <<"s", "u", "b", "s", "c", "r", "i", "b", "e">>,
     <<"e", "n", "t", "e", "r", " ", "e", "m", "a", "i", "l">>,
     <<"g", "e", "t", " ", "o", "u", "r", " ", "n", "e", "w", "s", "l", "e", "t", "t", "e", "r">>}

\* what the loop of removeNoiseElements does with one trimmed line:
\* "continue" skips it, "break" ends the loop, "push" keeps it
LineFilter(line) ==
    LET lower == ToLowerCase(line)
    IN  IF Len(line) = 0 THEN "continue"
        ELSE IF (\A i \in DOMAIN line : line[i] \notin WhiteSpace) /\ Len(line) < 15
             THEN "continue"
        ELSE IF isTimeAgo(lower) THEN "continue"
        ELSE IF SomeOf(lower, Literal(lower, {1}, <<"p", "u", "b", "l", "i", "s", "h", "e", "d">>), WhiteSpace) # {}
             THEN "continue"
        ELSE IF isClockTime(lower) THEN "continue"
        ELSE IF lower \in SharingButtons THEN "continue"
        ELSE IF lower \in NavigationSections THEN "continue"
        ELSE IF AnyWord(lower, {1}, {<<"m", "o", "r", "e">>, <<"e", "x", "p", "a", "n", "d">>,
     <<"c", "o", "l", "l", "a", "p", "s", "e">>, <<"m", "e", "n", "u">>}) # {} THEN "continue"
        ELSE IF isCredit(lower) THEN "continue"
        ELSE IF endsWith(lower, <<"(", "i", "s", "t", "o", "c", "k", ")">>) THEN "continue"
        ELSE IF AnyWord(lower, {1},
                    {<<"r", "e", "l", "a", "t", "e", "d">>, <<"t", "r", "e", "n", "d", "i", "n", "g">>,
     <<"p", "o", "p", "u", "l", "a", "r">>, <<"s", "e", "e", " ", "a", "l", "s", "o">>,
     <<"m", "o", "r", "e", " ", "f", "r", "o", "m">>,
     <<"m", "o", "r", "e", " ", "f", "r", "o", "m", " ", "t", "h", "e", " ", "b", "b", "c">>}) # {}
             THEN "break"
        ELSE IF isCopyright(lower) THEN "continue"
        ELSE IF includes(lower, <<"a", "l", "l", " ", "r", "i", "g", "h", "t", "s", " ", "r", "e", "s", "e", "r", "v", "e", "d">>) THEN "continue"
        ELSE IF \E notice \in LegalNotices : includes(lower, notice)
             THEN "continue"
        ELSE IF includes(lower, <<"m", "a", "t", "e", "r", "i", "a", "l", " ", "m", "a", "y", " ", "n", "o", "t", " ", "b", "e", " ", "p", "u", "b", "l", "i", "s", "h", "e", "d">>) THEN "continue"
        ELSE IF /\ \E prompt \in NewsletterPrompts : includes(lower, prompt)
                /\ Len(line) < 100
             THEN "continue"
        ELSE IF AnyWord(lower, {1},
                    {<<"q", "u", "o", "t", "e", " ", "l", "o", "o", "k", "u", "p">>,
     <<"u", ".", "s", ".", " ", "s", "t", "o", "c", "k", " ", "m", "a", "r", "k", "e", "t">>,
     <<"q", "u", "o", "t", "e", "s", " ", "d", "i", "s", "p", "l", "a", "y", "e", "d">>}) # {}
             THEN "continue"
        ELSE "push"

\* [A-Z\s] under the i flag
LetterOrSpace == Letter \cup WhiteSpace

\* /GET\s+[A-Z\s]+ON\s+THE\s+GO\s+BY\s+CLICKING\s+HERE/gi
AppPromotion(lower) ==
    [i \in StartsOf(lower, <<"g", "e", "t">>) |->
        LET get == SomeOf(lower, Literal(lower, {i}, <<"g", "e", "t">>), WhiteSpace)
            on == SomeOf(lower, Literal(lower, SomeOf(lower, get, LetterOrSpace), <<"o", "n">>),
                         WhiteSpace)
            the == SomeOf(lower, Literal(lower, on, <<"t", "h", "e">>), WhiteSpace)
            go == SomeOf(lower, Literal(lower, the, <<"g", "o">>), WhiteSpace)
            by == SomeOf(lower, Literal(lower, go, <<"b", "y">>), WhiteSpace)
            clicking == SomeOf(lower, Literal(lower, by, <<"c", "l", "i", "c", "k", "i", "n", "g">>), WhiteSpace)
        IN  Literal(lower, clicking, <<"h", "e", "r", "e">>)]

\* /CLICK\s+HERE\s+[A-Z\s]*/gi
ClickHere(lower) ==
    [i \in StartsOf(lower, <<"c", "l", "i", "c", "k">>) |->
        LET click == SomeOf(lower, Literal(lower, {i}, <<"c", "l", "i", "c", "k">>), WhiteSpace)
            here == SomeOf(lower, Literal(lower, click, <<"h", "e", "r", "e">>), WhiteSpace)
        IN  ManyOf(lower, here, LetterOrSpace)]

\* /\b(ADVERTISEMENT|SPONSORED CONTENT)\b/gi
Advertisement(lower) ==
    [i \in Boundary(lower, Anywhere(lower)) |->
        Boundary(lower, AnyWord(lower, {i}, {<<"a", "d", "v", "e", "r", "t", "i", "s", "e", "m", "e", "n", "t">>,
     <<"s", "p", "o", "n", "s", "o", "r", "e", "d", " ", "c", "o", "n", "t", "e", "n", "t">>}))]

CallsToAction ==
    {<<"s", "u", "b", "s", "c", "r", "i", "b", "e">>, <<"s", "i", "g", "n", " ", "u", "p">>,
     <<"f", "o", "l", "l", "o", "w", " ", "u", "s">>, <<"d", "o", "w", "n", "l", "o", "a", "d">>,
     <<"r", "e", "a", "d", " ", "m", "o", "r", "e">>,
     <<"l", "e", "a", "r", "n", " ", "m", "o", "r", "e">>, <<"w", "a", "t", "c", "h">>,
     <<"l", "i", "s", "t", "e", "n">>}

\* class{0,atMost}
AtMostOf(str, from, class, atMost) ==
    UNION {{k \in 1 .. Len(s) + 1 :
               \E i \in f : i <= k /\ k <= i + atMost /\ \A j \in i .. k - 1 : s[j] \in class} :
              s \in {str}, f \in {from}}

\* /\b(SUBSCRIBE|...|LISTEN)\s+[A-Z\s]{0,30}\b/gi
CallToAction(lower) ==
    [i \in {j \in Boundary(lower, Anywhere(lower)) : AnyWord(lower, {j}, CallsToAction) # {}} |->
        Boundary(lower,
            AtMostOf(lower,
                SomeOf(lower, AnyWord(lower, {i}, CallsToAction), WhiteSpace),
                LetterOrSpace, 30))]

\* /^[A-Z\s]{20,}$/gm
CapitalsHeadline(str) ==
    [i \in {j \in Anywhere(str) : j = 1 \/ str[j - 1] = "\n"} |->
        {k \in AtLeastOf(str, {i}, Upper \cup WhiteSpace, 20) :
            k = Len(str) + 1 \/ str[k] = "\n"}]

\* the lines the loop pushes: those it neither skips nor reaches after a break
cleanedLines(text) ==
    LET lines == split(text, "\n")
        trimmed == [i \in DOMAIN lines |-> Trim(lines[i])]
        fate == [i \in DOMAIN lines |-> LineFilter(trimmed[i])]
        kept == {i \in DOMAIN lines :
                    fate[i] = "push" /\ \A j \in 1 .. i : fate[j] # "break"}
    IN  [k \in 1 .. Cardinality(kept) |-> trimmed[Nth(kept, k)]]

\* each replace works on the string the one before it returned; the
\* patterns with the i flag are matched on the lower-cased string
removeNoiseElements(text) ==
    CHOOSE cleaned \in
        {removeMatches(fourth, CapitalsHeadline(fourth), 1) :
            fourth \in {removeMatches(third, CallToAction(ToLowerCase(third)), 1) :
                third \in {removeMatches(second, Advertisement(ToLowerCase(second)), 1) :
                    second \in {removeMatches(first, ClickHere(ToLowerCase(first)), 1) :
                        first \in {removeMatches(joined, AppPromotion(ToLowerCase(joined)), 1) :
                            joined \in {join(cleanedLines(text), <<"\n">>)}}}}}} : TRUE
-----------------------------------------------------------------------------
(* ClaimExtractor.splitIntoSentences and ClaimExtractor.extract *)

\* the abbreviations splitIntoSentences rewrites, in the order of its replace calls
Abbreviations ==
    <<<<<<"D", "r", ".">>, <<"D", "r">>>>, <<<<"M", "r", ".">>, <<"M", "r">>>>, <<<<"M", "r", "s", ".">>, <<"M", "r", "s">>>>, <<<<"M", "s", ".">>, <<"M", "s">>>>,
      <<<<"P", "r", "o", "f", ".">>, <<"P", "r", "o", "f">>>>, <<<<"S", "r", ".">>, <<"S", "r">>>>, <<<<"J", "r", ".">>, <<"J", "r">>>>, <<<<"U", ".", "S", ".">>, <<"U", "S">>>>,
      <<<<"U", ".", "K", ".">>, <<"U", "K">>>>, <<<<"e", "t", "c", ".">>, <<"e", "t", "c">>>>, <<<<"v", "s", ".">>, <<"v", "s">>>>, <<<<"e", ".", "g", ".">>, <<"e", "g">>>>,
      <<<<"i", ".", "e", ".">>, <<"i", "e">>>>>>

\* text.replace(/Dr\./g, 'Dr')...: the first n replacements applied in turn
RECURSIVE withoutAbbreviations(_, _)
withoutAbbreviations(text, n) ==
    IF n = 0 THEN text
    ELSE CHOOSE replaced \in
             {replaceWord(processed, Abbreviations[n][1], Abbreviations[n][2], 1) :
                 processed \in {withoutAbbreviations(text, n - 1)}} : TRUE

SentenceEnd == {".", "!", "?"}

\* (mutant of smartSplitLoop: a sentence end inside a quotation cuts as well)
RECURSIVE smartSplitLoopThroughQuotes(_, _, _, _, _)
smartSplitLoopThroughQuotes(text, i, currentSentence, inQuote, sentences) ==
    IF i > Len(text)
    THEN IF Len(Trim(currentSentence)) > 0
         THEN Append(sentences, Trim(currentSentence))
         ELSE sentences
    ELSE LET char == text[i]
             current == Append(currentSentence, char)
             quoted == IF char = "\"" THEN ~inQuote ELSE inQuote
         IN IF char \in SentenceEnd
            THEN IF i + 2 <= Len(text) /\ text[i + 1] = " " /\ text[i + 2] \in Upper
                 THEN smartSplitLoopThroughQuotes(text, i + 2, <<>>, quoted,
                                                  Append(sentences, Trim(current)))
                 ELSE IF i = Len(text)
                      THEN smartSplitLoopThroughQuotes(text, i + 1, <<>>, quoted,
                                                       Append(sentences, Trim(current)))
                      ELSE smartSplitLoopThroughQuotes(text, i + 1, current, quoted, sentences)
            ELSE smartSplitLoopThroughQuotes(text, i + 1, current, quoted, sentences)

\* the for loop of smartSplitSentences from the character at i (counted
\* from 1) on, and the push of the remaining text after it. Every quote
\* character of the source is the same character, so a quote opens when
\* none is open and closes the open one otherwise
RECURSIVE smartSplitLoop(_, _, _, _, _)
smartSplitLoop(text, i, currentSentence, inQuote, sentences) ==
    IF i > Len(text)
    THEN IF Len(Trim(currentSentence)) > 0
         THEN Append(sentences, Trim(currentSentence))
         ELSE sentences
    ELSE LET char == text[i]
             current == Append(currentSentence, char)
             quoted == IF char = "\"" THEN ~inQuote ELSE inQuote
         IN IF ~quoted /\ char \in SentenceEnd
            THEN IF i + 2 <= Len(text) /\ text[i + 1] = " " /\ text[i + 2] \in Upper
                 THEN smartSplitLoop(text, i + 2, <<>>, quoted,
                                     Append(sentences, Trim(current)))
                 ELSE IF i = Len(text)
                      THEN smartSplitLoop(text, i + 1, <<>>, quoted,
                                          Append(sentences, Trim(current)))
                      ELSE smartSplitLoop(text, i + 1, current, quoted, sentences)
            ELSE smartSplitLoop(text, i + 1, current, quoted, sentences)

smartSplitSentences(text) == smartSplitLoop(text, 1, <<>>, FALSE, <<>>)

\* processed.split(/\n+/), the paragraphs that trim to nothing left out
Paragraphs(processed) ==
    SelectSeq(split(processed, "\n"), LAMBDA para : Len(Trim(para)) > 0)

\* allSentences.push(...sentences) for the i-th paragraph and those after it
RECURSIVE SentencesFrom(_, _)
SentencesFrom(paragraphs, i) ==
    IF i > Len(paragraphs) THEN <<>>
    ELSE smartSplitSentences(paragraphs[i]) \o SentencesFrom(paragraphs, i + 1)

\* (mutant of splitIntoSentences: fragments of length 20 pass the filter)
splitIntoSentencesFromTwenty(text) ==
    CHOOSE sentences \in
        {SelectSeq(SentencesFrom(paragraphs, 1), LAMBDA s : Len(Trim(s)) >= 20) :
            paragraphs \in {Paragraphs(processed) :
                processed \in {withoutAbbreviations(text, Len(Abbreviations))}}} : TRUE

splitIntoSentences(text) ==
    CHOOSE sentences \in
        {SelectSeq(SentencesFrom(paragraphs, 1), LAMBDA s : Len(Trim(s)) > 20) :
            paragraphs \in {Paragraphs(processed) :
                processed \in {withoutAbbreviations(text, Len(Abbreviations))}}} : TRUE

\* (mutant of indexOf: 0 where the search string is not found)
indexOfOrStart(str, search, from) ==
    LET at == {p \in from .. Len(str) - Len(search) :
                  SubSeq(str, p + 1, p + Len(search)) = search}
    IN  IF at = {} THEN 0 ELSE CHOOSE p \in at : \A q \in at : p <= q

\* str.indexOf(search, from), positions counted from 0
indexOf(str, search, from) ==
    LET at == {p \in from .. Len(str) - Len(search) :
                  SubSeq(str, p + 1, p + Len(search)) = search}
    IN  IF at = {} THEN -1 ELSE CHOOSE p \in at : \A q \in at : p <= q

attributionPatterns ==
    {<<"a", "c", "c", "o", "r", "d", "i", "n", "g", " ", "t", "o">>,
     <<"s", "a", "i", "d", " ", "t", "h", "a", "t">>,
     <<"s", "t", "a", "t", "e", "d", " ", "t", "h", "a", "t">>,
     <<"c", "l", "a", "i", "m", "e", "d", " ", "t", "h", "a", "t">>,
     <<"r", "e", "p", "o", "r", "t", "e", "d", " ", "t", "h", "a", "t">>,
     <<"a", "n", "n", "o", "u", "n", "c", "e", "d", " ", "t", "h", "a", "t">>}

detectSource(sentence) ==
    LET lower == ToLowerCase(sentence)
    IN  IF \/ includes(sentence, <<"\"">>)
           \/ \E attribution \in attributionPatterns : includes(lower, attribution)
        THEN "quote"
        ELSE "direct"

\* getContext(sentences, index), the index counted from 1
getContext(sentences, index) ==
    LET before == IF index > 1 THEN sentences[index - 1] ELSE <<>>
        after == IF index < Len(sentences) THEN sentences[index + 1] ELSE <<>>
    IN  Trim(before \o <<" ">> \o sentences[index] \o <<" ">> \o after)

DecimalDigits == <<"0", "1", "2", "3", "4", "5", "6", "7", "8", "9">>

\* `${n}` for a natural number
RECURSIVE NumberToString(_)
NumberToString(n) ==
    IF n < 10 THEN <<DecimalDigits[n + 1]>>
    ELSE NumberToString(n \div 10) \o <<DecimalDigits[(n % 10) + 1]>>

\* `claim_${n}`
ClaimId(n) == <<"c", "l", "a", "i", "m", "_">> \o NumberToString(n)

\* CONFIG.maxClaimsPerArticle as config.js sets it
DefaultMaxClaims == 50

\* the values CONFIG.maxClaimsPerArticle is configured with
ConfiguredMaxima == {1, 2, DefaultMaxClaims}

\* the lines the articles are made of
ArticleLines ==
    {<<"T", "h", "e", " ", "F", "D", "A", " ", "s", "a", "i", "d", " ", "p", "r", "i", "c", "e", "s", " ", "r", "o", "s", "e", " ", "5", " ", "p", "e", "r", "c", "e", "n", "t", " ", "i", "n", " ", "2", "0", "2", "0", ".">>,
     <<"N", "A", "S", "A", " ", "f", "o", "u", "n", "d", " ", "3", " ", "m", "i", "l", "l", "i", "o", "n", " ", "r", "o", "c", "k", "s", " ", "i", "n", " ", "2", "0", "1", "9", ".", " ", "D", "r", ".", " ", "S", "m", "i", "t", "h", " ", "s", "a", "i", "d", " ", "p", "r", "i", "c", "e", "s", " ", "r", "o", "s", "e", " ", "5", " ", "p", "e", "r", "c", "e", "n", "t", ".">>,
     <<"I", " ", "t", "h", "i", "n", "k", " ", "t", "h", "i", "s", " ", "w", "a", "s", " ", "a", " ", "b", "e", "a", "u", "t", "i", "f", "u", "l", " ", "d", "a", "y", " ", "o", "v", "e", "r", "a", "l", "l", ".">>,
     <<"S", "h", "a", "r", "e">>,
     <<"R", "e", "l", "a", "t", "e", "d", " ", "s", "t", "o", "r", "i", "e", "s">>,
     <<"P", "r", "i", "c", "e", "s", " ", "r", "o", "s", "e", " ", "i", "n", " ", "2", "0", "2", "0", ".">>}

MaxLines == 3

RECURSIVE ArticlesOf(_)
ArticlesOf(n) ==
    IF n = 0 THEN {<<>>}
    ELSE ArticlesOf(n - 1)
           \cup {IF Len(text) = 0 THEN line ELSE text \o <<"\n">> \o line :
                    text \in ArticlesOf(n - 1) \ {<<>>}, line \in ArticleLines}
           \cup ArticleLines

Articles == ArticlesOf(MaxLines)

NoClaims == <<>>

ExIdle ==
    /\ maxClaimsPerArticle = DefaultMaxClaims
    /\ exInput = <<>>
    /\ exText = <<>>
    /\ exSentences = <<>>
    /\ exI = 1
    /\ exCurrentPos = 0
    /\ exClaims = NoClaims
    /\ exResult = NoClaims
    /\ exPc = "idle"

ExInit ==
    /\ maxClaimsPerArticle \in ConfiguredMaxima
    /\ exInput = <<>>
    /\ exText = <<>>
    /\ exSentences = <<>>
    /\ exI = 1
    /\ exCurrentPos = 0
    /\ exClaims = NoClaims
    /\ exResult = NoClaims
    /\ exPc = "call"

\* extract(text) up to its loop. debugThrows: Logger.debug throws, which
\* the catch block turns into an empty list
Extract(text, debugThrows) ==
    /\ exPc = "call"
    /\ exInput' = text
    /\ exI' = 1
    /\ exCurrentPos' = 0
    /\ exClaims' = NoClaims
    /\ IF Len(text) = 0
       THEN /\ exPc' = "returned"
            /\ exResult' = NoClaims
            /\ UNCHANGED <<exText, exSentences>>
       ELSE \E cleaned \in {removeNoiseElements(text)} :
              \E sentences \in {splitIntoSentences(cleaned)} :
                /\ exText' = cleaned
                /\ exSentences' = mergeQuotedContent(sentences)
                /\ IF debugThrows
                   THEN exPc' = "caught" /\ exResult' = NoClaims
                   ELSE exPc' = "loop" /\ UNCHANGED exResult
    /\ UNCHANGED <<maxClaimsPerArticle, exFrame>>

LimitNeverReached(claims, limit) == FALSE

\* claims.length >= CONFIG.maxClaimsPerArticle
LimitReached(claims, limit) == Len(claims) >= limit

\* one iteration of the loop of extract; the break returns the claims
ExtractStep ==
    /\ exPc = "loop"
    /\ exI <= Len(exSentences)
    /\ LET sentence == exSentences[exI]
           sentenceStart == indexOf(exText, sentence, exCurrentPos)
           sentenceEnd == sentenceStart + Len(sentence)
           claim == [id |-> ClaimId(Len(exClaims) + 1),
                     claim |-> Trim(sentence),
                     source |-> detectSource(sentence),
                     context |-> getContext(exSentences, exI),
                     position |-> [start |-> sentenceStart, end |-> sentenceEnd]]
       IN  IF sentenceStart = -1
           THEN /\ exCurrentPos' = exCurrentPos + Len(sentence)
                /\ exI' = exI + 1
                /\ UNCHANGED <<exClaims, exResult, exPc>>
           ELSE /\ exCurrentPos' = sentenceEnd
                /\ IF isCheckWorthyClaim(sentence)
                   THEN /\ exClaims' = Append(exClaims, claim)
                        /\ IF LimitReached(exClaims', maxClaimsPerArticle)
                           THEN /\ exPc' = "returned"
                                /\ exResult' = exClaims'
                                /\ UNCHANGED exI
                           ELSE /\ exI' = exI + 1
                                /\ UNCHANGED <<exResult, exPc>>
                   ELSE /\ exI' = exI + 1
                        /\ UNCHANGED <<exClaims, exResult, exPc>>
    /\ UNCHANGED <<maxClaimsPerArticle, exInput, exText, exSentences, exFrame>>

\* the loop ends and extract returns the claims
ExtractReturns ==
    /\ exPc = "loop"
    /\ exI > Len(exSentences)
    /\ exPc' = "returned"
    /\ exResult' = exClaims
    /\ UNCHANGED <<maxClaimsPerArticle, exInput, exText, exSentences, exI, exCurrentPos,
                   exClaims, exFrame>>

ExNext ==
    \/ \E text \in Articles : \E debugThrows \in BOOLEAN : Extract(text, debugThrows)
    \/ ExtractStep
    \/ ExtractReturns

\* the last sentence the loop looked at
LastScanned == exSentences[exI]

\* C19: extract never returns more claims than CONFIG.maxClaimsPerArticle:
\* the loop never runs on with that many claims, and when it returns that
\* many the last sentence it looked at is the last claim; the k-th claim
\* emitted has the id claim_k, claims are only ever appended one at a
\* time; extract called with an empty text, or ended by its catch block,
\* returns an empty list
C19_ExtractLimit ==
    /\ [](/\ Len(exClaims) <= maxClaimsPerArticle
          /\ Len(exResult) <= maxClaimsPerArticle
          /\ \A k \in DOMAIN exClaims : exClaims[k].id = ClaimId(k)
          /\ \A k \in DOMAIN exClaims : \A l \in DOMAIN exClaims :
                k # l => exClaims[k].id # exClaims[l].id
          /\ exPc = "loop" => Len(exClaims) < maxClaimsPerArticle
          /\ exPc = "returned" => exResult = exClaims
          /\ exPc = "returned" /\ Len(exResult) = maxClaimsPerArticle
                => /\ exI <= Len(exSentences)
                   /\ exResult[Len(exResult)].claim = Trim(LastScanned)
          /\ exPc = "returned" /\ Len(exInput) = 0 => exResult = NoClaims
          /\ exPc = "caught" => exResult = NoClaims)
    /\ [][/\ Len(exClaims') <= Len(exClaims) + 1
          /\ SubSeq(exClaims', 1, Len(exClaims)) = exClaims]_exClaims

\* extract returned at the limit with sentences it never looked at
C19_Witness ==
    /\ exPc = "returned"
    /\ maxClaimsPerArticle = 2
    /\ Len(exResult) = 2
    /\ exI < Len(exSentences)

-----------------------------------------------------------------------------
(* The records ClaimScorer.score returns *)

\* a record that has the four signal scores, a trustScore and the sources
\* field with its three lists
FullyPopulated(record) ==
    /\ \A s \in Signals : record.scores[s] = NA \/ record.scores[s].type = "number"
    /\ record.trustScore.type = "number"
    /\ record.sources.present
    /\ record.sources.all = record.sources.scholar \o record.sources.web

\* C22: every record returned by ClaimScorer.score, on the normal path and
\* on the failure path, has the four signal scores, a trustScore and a
\* sources field whose list all is the scholar list followed by the web list
C22_RecordsFullyPopulated ==
    scPc = "returned" => \A i \in DOMAIN scResult : FullyPopulated(scResult[i])

-----------------------------------------------------------------------------
(* The lean counts of analyzeSourceSpectrum and DomainBiasResolver *)

\* The most results of one search in the comparison with the resolver
MaxSpectrum == 2

\* The domains of the results, as WebScraper.extractDomain returns them
\* (the host name of the URL without a leading www.)
SpectrumDomains ==
    {<<"c", "n", "n", ".", "c", "o", "m">>,
     <<"e", "d", "i", "t", "i", "o", "n", ".", "c", "n", "n", ".", "c", "o", "m">>,
     <<"n", "o", "t", "c", "n", "n", ".", "c", "o", "m">>,
     <<"n", "i", "g", "h", "t", "t", "i", "m", "e", ".", "c", "o", "m">>,
     <<"f", "o", "x", "n", "e", "w", "s", ".", "c", "o", "m">>,
     <<"n", "e", "w", "s", ".", "b", "b", "c", ".", "c", "o", ".", "u", "k">>,
     <<"e", "x", "a", "m", "p", "l", "e", ".", "c", "o", "m">>}

\* one search on a page where the resolver has its core table
SpectrumInit ==
    /\ wcResults \in UNION {[1 .. n -> {[domain |-> d] : d \in SpectrumDomains}] :
                               n \in 0 .. MaxSpectrum}
    /\ wcAnalysis = NoAnalysis
    /\ wcScore = Num(0, 1)
    /\ wcPc = "call"

\* the results the resolver gives the lean to
ResolverCount(lean) ==
    Cardinality({i \in DOMAIN wcResults : classify(MAP, wcResults[i].domain) = lean})

\* C27: a search result is counted as left, center or right if and only if
\* DomainBiasResolver classify returns that lean for its domain, and as
\* unknown otherwise, also for hosts that only contain a known domain as a
\* substring
C27_CountsAgreeWithResolver ==
    wcPc = "done" =>
        \A lean \in {"left", "center", "right", "unknown"} :
            wcAnalysis[lean] = ResolverCount(lean)

-----------------------------------------------------------------------------
(* The score of isCheckWorthyClaim *)

\* The sentences the score is looked at with: a declarative clause with a
\* main verb and no signal, then any of the phrases below, then a full stop.
\* Each phrase holds one signal category, some of them twice.
ScoredClause == <<"t", "h", "e", " ", "b", "u", "d", "g", "e", "t", " ", "o", "f", " ", "t", "h", "e", " ", "t", "o", "w", "n", " ", "w", "a", "s", " ", "s", "e", "t">>

ScoredPhrases ==
    <<<<" ", "t", "h", "a", "t", " ", "c", "a", "u", "s", "e", "d", " ", "w", "h", "a", "t", " ", "c", "a", "u", "s", "e", "s", " ", "i", "t">>, <<" ", "b", "y", " ", "5", " ", "p", "e", "r", "c", "e", "n", "t", " ", "o", "r", " ", "6", " ", "p", "e", "r", "c", "e", "n", "t">>, <<" ", "f", "o", "r", " ", "7", " ", "i", "t", "e", "m", "s">>,
      <<" ", "n", "o", "t", " ", "w", "i", "t", "h", "o", "u", "t", " ", "i", "t">>, <<" ", "a", "s", " ", "i", "t", " ", "c", "o", "u", "l", "d">>, <<" ", "m", "o", "r", "e", " ", "t", "h", "a", "n", " ", "m", "o", "s", "t">>, <<" ", "i", "n", " ", "i", "m", "p", "a", "c", "t">>>>

RECURSIVE PhrasesFrom(_, _)
PhrasesFrom(chosen, k) ==
    IF k > Len(ScoredPhrases) THEN <<".">>
    ELSE (IF k \in chosen THEN ScoredPhrases[k] ELSE <<>>) \o PhrasesFrom(chosen, k + 1)

ScoredSentences ==
    {ScoredClause \o PhrasesFrom(chosen, 1) : chosen \in SUBSET DOMAIN ScoredPhrases}

CwScoreInit ==
    /\ cwSentence \in ScoredSentences
    /\ cwResult = FALSE
    /\ cwPc = "call"

\* the signal categories, and twice the points of each
SignalCategories ==
    <<"causal", "epistemic", "official action", "measurement", "bare number",
      "named entity", "temporal", "attribution or quote", "comparative", "modal",
      "negation", "variability", "consequence">>

PointsDoubled(category) ==
    CASE category \in {"causal", "epistemic", "official action", "measurement"} -> 4
      [] category = "attribution or quote" -> 3
      [] category \in {"bare number", "named entity", "temporal", "comparative",
                        "variability"} -> 2
      [] OTHER -> 1

\* the categories a trimmed sentence holds a signal of; a bare number is a
\* number that is not part of a measurement anywhere in the sentence
CategoriesPresent(trimmed) ==
    LET lower == ToLowerCase(trimmed)
    IN  {c \in {SignalCategories[k] : k \in DOMAIN SignalCategories} :
            CASE c = "causal" -> HasWord(lower, causalMarkers)
              [] c = "epistemic" -> HasWord(lower, epistemicVerbs)
              [] c = "official action" -> HasWord(lower, officialActions)
              [] c = "measurement" -> hasMeasurement(lower)
              [] c = "bare number" -> hasNumber(trimmed) /\ ~hasMeasurement(lower)
              [] c = "named entity" -> namedEntities(trimmed)
              [] c = "temporal" -> temporal(trimmed, lower)
              [] c = "attribution or quote" ->
                    HasWord(lower, AttributionWords) \/ includes(trimmed, <<"\"">>)
              [] c = "comparative" -> HasWord(lower, ComparativeWords)
              [] c = "modal" -> HasWord(lower, ModalVerbs)
              [] c = "negation" -> HasWord(lower, NegationWords)
              [] c = "variability" -> HasWord(lower, VariabilityWords)
              [] c = "consequence" -> HasWord(lower, ConsequenceWords)}

RECURSIVE PointsFrom(_, _)
PointsFrom(present, k) ==
    IF k > Len(SignalCategories) THEN 0
    ELSE (IF SignalCategories[k] \in present THEN PointsDoubled(SignalCategories[k]) ELSE 0)
            + PointsFrom(present, k + 1)

\* the phrases of ScoredPhrases a sentence was made with
PhrasesIn(sentence) == {k \in DOMAIN ScoredPhrases : includes(sentence, ScoredPhrases[k])}

\* C30: for a sentence that passes all gates and filters, isCheckWorthyClaim
\* returns true if and only if the sum of the fixed points of the signal
\* categories present, each counted once (measurement or else bare number,
\* never both), is at least 2.5; the categories of the sentences here are
\* those of their phrases
C30_ScoreIsSumOfCategories ==
    cwPc = "done" /\ ~GateApplies(cwSentence) =>
        \E present \in {CategoriesPresent(Trim(cwSentence))} :
            /\ cwResult = (PointsFrom(present, 1) >= 5)
            /\ present =
                 {c \in {"causal", "measurement", "bare number", "negation", "modal",
                         "comparative", "consequence"} :
                    \/ c = "causal" /\ 1 \in PhrasesIn(cwSentence)
                    \/ c = "measurement" /\ 2 \in PhrasesIn(cwSentence)
                    \/ c = "bare number" /\ 3 \in PhrasesIn(cwSentence)
                                         /\ 2 \notin PhrasesIn(cwSentence)
                    \/ c = "negation" /\ 4 \in PhrasesIn(cwSentence)
                    \/ c = "modal" /\ 5 \in PhrasesIn(cwSentence)
                    \/ c = "comparative" /\ 6 \in PhrasesIn(cwSentence)
                    \/ c = "consequence" /\ 7 \in PhrasesIn(cwSentence)}

\* two measurements, a bare number and two negations score 2 + 0.5, which
\* is the threshold: the sentence is a claim
C30_Witness ==
    /\ cwPc = "done"
    /\ PhrasesIn(cwSentence) = {2, 3, 4}
    /\ ~GateApplies(cwSentence)
    /\ cwResult = TRUE

-----------------------------------------------------------------------------
(* API.retry around API.batchClassify and API.call *)

\* How the request of one attempt ends: answered; chrome.runtime.lastError
\* (backgroundFetch rejects); response.success false; an answer whose
\* content is not what the function expects (JSON.parse or data.choices[0]
\* throws)
RequestOutcomes == {"ok", "transport error", "HTTP error", "malformed response"}

\* The functions retry is given: classify passes batchClassify; call is the
\* single-completion function of the same object
RetriedFunctions == {"batchClassify", "call"}

\* The arguments of retry: classify passes 3 and 2000; 1000 is the default delay
RetryLimits == {1, 3}
RetryDelays == {1000, 2000}

NotSettled == [st |-> "pending", value |-> "none"]

RtIdle ==
    /\ rtFn = "none"
    /\ rtMaxRetries = 0
    /\ rtDelay = 0
    /\ rtI = 0
    /\ rtAttempts = <<>>
    /\ rtWaits = <<>>
    /\ rtResult = NotSettled
    /\ rtPc = "idle"

\* retry returns value
RtResolve(value) ==
    /\ rtResult' = [st |-> "resolved", value |-> value]
    /\ rtPc' = "settled"

\* fn() up to its request: without a key batchClassify and call return null
\* at once, and retry returns it
RtInvoke ==
    IF apiKey
    THEN /\ rtPc' = "request"
         /\ rtResult' = NotSettled
    ELSE RtResolve("null")

\* API.retry(fn, maxRetries, delay), up to the first wait
Retry(fn, maxRetries, delay) ==
    /\ rtPc \in {"idle", "settled"}
    /\ rtFn' = fn
    /\ rtMaxRetries' = maxRetries
    /\ rtDelay' = delay
    /\ rtI' = 0
    /\ rtAttempts' = <<>>
    /\ rtWaits' = <<>>
    /\ RtInvoke
    /\ UNCHANGED rtFrame

\* whether fn rejects when its request ends as outcome: call logs the error
\* and throws it again, batchClassify catches it and returns the defaults
FunctionThrows(fn, outcome) == fn = "call" /\ outcome # "ok"

RECURSIVE PowerOfTwo(_)
PowerOfTwo(k) == IF k = 0 THEN 1 ELSE 2 * PowerOfTwo(k - 1)

\* the request of the current attempt ends: retry returns what fn returned,
\* throws what fn threw at the last attempt, and otherwise sleeps
\* delay * 2^i before the next attempt
RequestSettles(outcome) ==
    /\ rtPc = "request"
    /\ rtAttempts' = Append(rtAttempts, outcome)
    /\ IF ~FunctionThrows(rtFn, outcome)
       THEN /\ RtResolve(IF outcome = "ok" THEN "answer" ELSE "defaults")
            /\ UNCHANGED rtWaits
       ELSE IF rtI = rtMaxRetries - 1
       THEN /\ rtResult' = [st |-> "rejected", value |-> outcome]
            /\ rtPc' = "settled"
            /\ UNCHANGED rtWaits
       ELSE /\ rtWaits' = Append(rtWaits, rtDelay * PowerOfTwo(rtI))
            /\ rtPc' = "sleep"
            /\ UNCHANGED rtResult
    /\ UNCHANGED <<rtFn, rtMaxRetries, rtDelay, rtI>>
    /\ UNCHANGED rtFrame

\* the timer of the sleep fires: the next iteration calls fn again
SleepEnds ==
    /\ rtPc = "sleep"
    /\ rtI' = rtI + 1
    /\ RtInvoke
    /\ UNCHANGED <<rtFn, rtMaxRetries, rtDelay, rtAttempts, rtWaits>>
    /\ UNCHANGED rtFrame

RtNext ==
    \/ \E fn \in RetriedFunctions : \E maxRetries \in RetryLimits :
       \E delay \in RetryDelays : Retry(fn, maxRetries, delay)
    \/ \E outcome \in RequestOutcomes : RequestSettles(outcome)
    \/ SleepEnds

\* the call classify makes has settled after at least one request
ClassifyRetrySettled ==
    /\ rtPc = "settled"
    /\ rtFn = "batchClassify"
    /\ rtMaxRetries = 3
    /\ rtDelay = 2000
    /\ rtAttempts # <<>>

\* C24: when a remote classification request fails, classify invokes the
\* batch classification again: at most 3 attempts, with waits of 2 s and then
\* 4 s between them, stopping at the first attempt that succeeds
C24_FailedRequestIsRetried ==
    ClassifyRetrySettled =>
        /\ Len(rtAttempts) <= 3
        /\ \A k \in 1 .. Len(rtAttempts) - 1 : rtAttempts[k] # "ok"
        /\ rtAttempts[Len(rtAttempts)] = "ok" \/ Len(rtAttempts) = 3
        /\ rtWaits = SubSeq(<<2000, 4000>>, 1, Len(rtAttempts) - 1)

-----------------------------------------------------------------------------
(* What classify writes back to the cache *)

\* C25: after a classify call in which the remote classifier was available,
\* the cache holds for every input claim that missed the cache, under the
\* claim's classification key and expiring 24 hours later, exactly the
\* classification classify returned for the claim
C25_CacheHoldsReturnedClassification ==
    clPc = "returned" /\ clPath = "classified" =>
        \A k \in DOMAIN clClaims :
            ~Truthy(clCached[k]) =>
                /\ ClassificationKey(clClaims[k]) \in DOMAIN cache
                /\ cache[ClassificationKey(clClaims[k])].value =
                       clResult[k].classification
                /\ \E t \in 0 .. now :
                       /\ t % TickMs = 0
                       /\ cache[ClassificationKey(clClaims[k])].expiresAt =
                              t + 24 * 60 * 60 * 1000

-----------------------------------------------------------------------------
(* The claim objects from one stage to the next *)

PlIdle ==
    /\ plHeap = <<>>
    /\ plBefore = <<>>
    /\ plClaims = <<>>
    /\ plClassified = <<>>
    /\ plScored = <<>>
    /\ plPc = "idle"

\* the extractor has returned its claims
PlInit ==
    /\ plHeap \in ExtractedClaims
    /\ plBefore = plHeap
    /\ plClaims = [k \in DOMAIN plHeap |-> k]
    /\ plClassified = <<>>
    /\ plScored = <<>>
    /\ plPc = "extracted"

\* (mutant of Spread: Object.assign(claim, ...) writes the fields into the
\* object it was given)
SpreadInPlace(heap, ref, record) ==
    [heap |-> [heap EXCEPT ![ref] = record], ref |-> ref]

\* {...claim, more}: a new object that holds record, the fields of the
\* object at ref and the added ones
Spread(heap, ref, record) ==
    [heap |-> Append(heap, record), ref |-> Len(heap) + 1]

\* claims.map(claim => ({...claim, more})): records[k] is spread from the
\* object at refs[k]
RECURSIVE SpreadAll(_, _, _, _)
SpreadAll(heap, refs, records, k) ==
    IF k > Len(refs) THEN [heap |-> heap, refs |-> <<>>]
    ELSE LET first == Spread(heap, refs[k], records[k])
             rest == SpreadAll(first.heap, refs, records, k + 1)
         IN  [heap |-> rest.heap, refs |-> <<first.ref>> \o rest.refs]

\* What classify may return for the claims, by path: every claim cached;
\* no key; classified by the remote classifier (the first claim cached or
\* not); failed
ClassifyReturns(claims) ==
    {AllCachedResults(claims, [k \in DOMAIN claims |-> "empirical_fact"]),
     UnavailableResults(claims, [k \in DOMAIN claims |-> Null]),
     FailedResults(claims, [k \in DOMAIN claims |-> Null])}
    \cup {MergedResults(claims,
                        [k \in DOMAIN claims |-> IF k = 1 THEN first ELSE Null],
                        batchClassify(claims, [k \in DOMAIN claims |-> answer])) :
             first \in {Null, "current_news"}, answer \in RemoteValues}

\* classify(claims) returns
PlClassify ==
    /\ plPc = "extracted"
    /\ \E claims \in {[k \in DOMAIN plClaims |-> plHeap[plClaims[k]]]} :
       \E results \in ClassifyReturns(claims) :
       \E spread \in {SpreadAll(plHeap, plClaims, results, 1)} :
          /\ plHeap' = spread.heap
          /\ plClassified' = spread.refs
    /\ plBefore' = plHeap
    /\ plPc' = "classified"
    /\ UNCHANGED <<plClaims, plScored>>
    /\ UNCHANGED plFrame

\* How scoreSingleClaim may end for a claim: every scorer in time, every
\* scorer late, or the catch block
ScoringOutcomes == {"scored", "timeout", "failed"}

\* the record scoreSingleClaim builds, before it sets the note
ScoredRecord(claim, outcome) ==
    IF outcome = "failed" THEN FallbackClaim(claim)
    ELSE ScoredClaim(claim,
             [s \in Signals |->
                 IF outcome = "timeout" THEN [st |-> "timeout", v |-> DefaultValue(s)]
                 ELSE [st |-> "value", v |-> CHOOSE v \in ScorerValues(s) : TRUE]])

\* score(claims) returns: the normal path builds scoredClaim without a note
\* and then assigns scoredClaim.note
PlScore ==
    /\ plPc = "classified"
    /\ \E outcomes \in [DOMAIN plClassified -> ScoringOutcomes] :
       \E records \in {[k \in DOMAIN plClassified |->
                          ScoredRecord(plHeap[plClassified[k]], outcomes[k])]} :
       \E spread \in {SpreadAll(plHeap, plClassified,
                          [k \in DOMAIN records |->
                              IF outcomes[k] = "failed" THEN records[k]
                              ELSE [records[k] EXCEPT !.note = Absent]], 1)} :
          /\ plHeap' = [r \in DOMAIN spread.heap |->
                          IF \E k \in DOMAIN records : r = spread.refs[k]
                          THEN records[CHOOSE k \in DOMAIN records : r = spread.refs[k]]
                          ELSE spread.heap[r]]
          /\ plScored' = spread.refs
    /\ plBefore' = plHeap
    /\ plPc' = "scored"
    /\ UNCHANGED <<plClaims, plClassified>>
    /\ UNCHANGED plFrame

PlNext == PlClassify \/ PlScore

\* the array the last stage was given and the one it returned
StageInput == IF plPc = "classified" THEN plClaims ELSE plClassified
StageOutput == IF plPc = "classified" THEN plClassified ELSE plScored

\* C23: after classify and after score have returned, on every path, each
\* input claim object (and every other object that existed before the call)
\* has exactly the fields and values it had before the call, and the
\* enriched data lives in newly created records, one per input claim
C23_StagesLeaveInputsAlone ==
    plPc \in {"classified", "scored"} =>
        /\ \A r \in DOMAIN plBefore : plHeap[r] = plBefore[r]
        /\ Len(StageOutput) = Len(StageInput)
        /\ \A k \in DOMAIN StageOutput :
              /\ StageOutput[k] \notin DOMAIN plBefore
              /\ plHeap[StageOutput[k]].id = plBefore[StageInput[k]].id
              /\ plHeap[StageOutput[k]].claim = plBefore[StageInput[k]].claim
              /\ plHeap[StageOutput[k]].classification \in Classifications
              /\ plPc = "scored" => plHeap[StageOutput[k]].resolved

\* two claims went through both stages, one scored with a note set on its
\* record and one by the catch block
C23_Witness ==
    /\ plPc = "scored"
    /\ Len(plClaims) = 2
    /\ plHeap[plScored[1]].note \notin {Absent, NoteFailed}
    /\ plHeap[plScored[2]].note = NoteFailed
    /\ plHeap[plClaims[1]] = [id |-> 1, claim |-> <<"A">>]

-----------------------------------------------------------------------------
(* ClaimScorer.scoreSingleClaim over AIScorer, ScholarScorer, WebScorer and the cache *)

\* The domain of the article the claims were extracted from
ArticleDomain == <<"c", "n", "n", ".", "c", "o", "m">>

\* How many times the claim is scored at most
MaxRuns == 2

Runs == 1 .. MaxRuns

\* What the collaborators resolve to: callOpenAI with an answer that is a
\* score and, for the credibility rating, one that is not (a rejected call
\* ends as the latter does); searchScholar and searchWeb with some results,
\* one of the web results being from the article's own domain
RescoreAnswers == {<<"1", "0", "/", "1", "0">>, <<"h", "i", "g", "h">>}
RescoreScholarOutcomes == {ScholarResults(2, 1)}
RescoreWebOutcomes == {WebResults(1, 1, 0, 1)}

RemoteOutcomes(s) ==
    IF s = "aiRating" THEN RescoreAnswers
    ELSE IF s = "toneAnalysis" THEN {<<"1", "0", "/", "1", "0">>}
    ELSE IF s = "scholarlyMatch" THEN RescoreScholarOutcomes
    ELSE RescoreWebOutcomes

\* the type each scorer builds its cache key with
ScorerType(s) ==
    CASE s = "aiRating" -> TypeAi("credibility")
      [] s = "toneAnalysis" -> TypeAi("tone")
      [] s = "scholarlyMatch" -> TypeScholar
      [] OTHER -> TypeWeb

\* The claim that is scored, under each of the classifications
RescoredClaims ==
    {[id |-> 1, claim |-> <<"A">>, classification |-> c] : c \in CachedClassifications}

\* the cache key of each scorer for each claim
ScorerKeys ==
    [claim \in RescoredClaims |->
        [s \in Signals |->
            generateKey(claim.claim, ScorerType(s), Chars(claim.classification))]]

ScorerKey(claim, s) == ScorerKeys[claim][s]

\* whether the scorer gets as far as the cache: AIScorer returns 'n/a'
\* without a key, ScholarScorer {score: 0, sources: []} for a claim that is
\* not an empirical fact
ReadsCache(claim, s, key) ==
    IF s \in LmSignals THEN key
    ELSE IF s = "scholarlyMatch" THEN ~ScholarSkips(claim.classification)
    ELSE TRUE

\* what the scorer returns without reading the cache
LocalResult(s) ==
    IF s \in LmSignals THEN NA ELSE [score |-> Num(0, 1), sources |-> <<>>]

\* (mutant of CachedResult: a cached search score comes with a source)
CachedResultWithSource(s, cached) ==
    IF s \in LmSignals THEN cached
    ELSE [score |-> cached,
          sources |-> <<[domain |-> <<"e", "x", "a", "m", "p", "l", "e", ".", "c", "o", "m">>]>>]

\* (mutant of CachedResult: a cached search score is returned as 0)
CachedResultDropped(s, cached) ==
    IF s \in LmSignals THEN cached ELSE [score |-> Num(0, 1), sources |-> <<>>]

\* what the scorer returns on a cache hit
CachedResult(s, cached) ==
    IF s \in LmSignals THEN cached ELSE [score |-> cached, sources |-> <<>>]

\* the scorer of signal s up to its first wait for the network
StartScorer(claim, s, key, c, t) ==
    IF ~ReadsCache(claim, s, key)
    THEN [st |-> "settled", from |-> "local", v |-> LocalResult(s)]
    ELSE LET got == CacheGet(c, ScorerKey(claim, s), t)
         IN  IF got.hit
             THEN [st |-> "settled", from |-> "cache", v |-> CachedResult(s, got.value)]
             ELSE [st |-> "remote", from |-> "none", v |-> DefaultValue(s)]

\* the cache after the Cache.get calls of the scorers that read it
RECURSIVE CacheAfterGets(_, _, _)
CacheAfterGets(c, keys, t) ==
    IF keys = {} THEN c
    ELSE LET key == CHOOSE k \in keys : TRUE
         IN  CacheAfterGets(CacheGet(c, key, t).cache, keys \ {key}, t)

\* what the scorer of signal s returns once its collaborator has resolved
\* with outcome, and the score it caches
ScorerComputes(s, outcome) ==
    IF s \in LmSignals
    THEN LET score == parseFloat(outcome)
         IN  IF ValidScore(score)
             THEN [v |-> score, cached |-> TRUE, score |-> score]
             ELSE [v |-> NA, cached |-> FALSE, score |-> NA]
    ELSE IF s = "scholarlyMatch"
    THEN LET scoreValue == Num(ScholarCalculateScore(outcome), 1)
         IN  [v |-> [score |-> scoreValue, sources |-> outcome],
              cached |-> TRUE, score |-> scoreValue]
    ELSE LET sourceAnalysisWithResults == analyzeSourceSpectrum(outcome, <<>>)
             scoreValue == WebCalculateScore(sourceAnalysisWithResults.analysis)
         IN  [v |-> [score |-> scoreValue, sources |-> sourceAnalysisWithResults.results],
              cached |-> TRUE, score |-> scoreValue]

ScorerReturns == [s \in Signals |-> [outcome \in RemoteOutcomes(s) |-> ScorerComputes(s, outcome)]]

ScorerReturn(s, outcome) == ScorerReturns[s][outcome]

\* (mutant of CacheAfterReturn: a scorer whose race is over is cancelled)
CacheAfterReturnInTime(race, c, key, returned, t) ==
    IF returned.cached /\ race.st = "pending"
    THEN CacheSet(c, key, returned.score, 86400, t)
    ELSE c

\* the cache once the scorer has returned: the scorer does not know of the
\* race it was put in
CacheAfterReturn(race, c, key, returned, t) ==
    IF returned.cached THEN CacheSet(c, key, returned.score, 86400, t) ELSE c

\* (mutant of withTimeout: the scorer's value replaces the default)
withTimeoutLastWins(race, value) == [st |-> "value", from |-> "remote", v |-> value]

\* Promise.race([promise, timer]) as the scorer's promise resolves with
\* value: a race that has settled stays as it is
withTimeout(race, value) ==
    IF race.st = "pending" THEN [st |-> "value", from |-> "remote", v |-> value]
    ELSE race

NoRace(s) == [st |-> "none", from |-> "none", v |-> DefaultValue(s)]
NoScorer(s) == [st |-> "none", v |-> DefaultValue(s)]
NoClaim == [id |-> 0, claim |-> <<>>, classification |-> "general_knowledge"]

RsIdle ==
    /\ rsClaim = NoClaim
    /\ rsRun = 0
    /\ rsScorer = <<>>
    /\ rsRace = <<>>
    /\ rsRecords = <<>>
    /\ rsPc = "idle"

RsInit ==
    /\ rsClaim \in RescoredClaims
    /\ rsRun = 0
    /\ rsScorer = [run \in Runs |-> [s \in Signals |-> NoScorer(s)]]
    /\ rsRace = [run \in Runs |-> [s \in Signals |-> NoRace(s)]]
    /\ rsRecords = [run \in Runs |-> NoRecord(rsClaim)]
    /\ rsPc = "idle"

\* Promise.all over the four races of a run: scoreSingleClaim resumes once
\* all have resolved and builds its record
RsAwaitAll(run, races) ==
    LET all == \A s \in Signals : races[s].st \in {"value", "timeout"}
    IN  /\ rsRecords' = IF all THEN [rsRecords EXCEPT ![run] = ScoredClaim(rsClaim, races)]
                        ELSE rsRecords
        /\ rsPc' = IF all THEN "returned" ELSE "scoring"

\* scoreSingleClaim(claim) up to its await: AIScorer.init reads the key on
\* the first call, every scorer runs up to its first wait for the network,
\* the timers are armed
Rescore ==
    /\ rsPc \in {"idle", "returned"}
    /\ rsRun < MaxRuns
    /\ aiInitialized' = TRUE
    /\ aiApiKey' = IF aiInitialized THEN aiApiKey ELSE apiKey
    /\ \E run \in {rsRun + 1} :
       \E started \in {[s \in Signals |-> StartScorer(rsClaim, s, aiApiKey', cache, now)]} :
       \E races \in {[s \in Signals |->
                        IF started[s].st = "settled"
                        THEN [st |-> "value", from |-> started[s].from, v |-> started[s].v]
                        ELSE [st |-> "pending", from |-> "none", v |-> DefaultValue(s)]]} :
          /\ rsRun' = run
          /\ rsScorer' = [rsScorer EXCEPT ![run] =
                            [s \in Signals |-> [st |-> started[s].st, v |-> started[s].v]]]
          /\ rsRace' = [rsRace EXCEPT ![run] = races]
          /\ cache' = CacheAfterGets(cache,
                          {ScorerKey(rsClaim, s) :
                              s \in {t \in Signals : ReadsCache(rsClaim, t, aiApiKey')}}, now)
          /\ RsAwaitAll(run, races)
    /\ UNCHANGED rsClaim
    /\ UNCHANGED <<now, apiKey, clClaims, clCached, clResult, clPath, clPc>>
    /\ UNCHANGED <<srCall, srOps, srResult, srPc>>
    /\ UNCHANGED rsFrame

\* the collaborator of the scorer of signal s of a run resolves: the scorer
\* computes its value, caches the score and returns, whether or not the
\* timer of its race has fired in the meantime
RsScorerReturns(run, s) ==
    /\ run \in Runs
    /\ rsScorer[run][s].st = "remote"
    /\ \E outcome \in RemoteOutcomes(s) :
       \E returned \in {ScorerReturn(s, outcome)} :
       \E races \in {[rsRace[run] EXCEPT ![s] = withTimeout(rsRace[run][s], returned.v)]} :
          /\ cache' = CacheAfterReturn(rsRace[run][s], cache, ScorerKey(rsClaim, s),
                                       returned, now)
          /\ rsScorer' = [rsScorer EXCEPT ![run][s] = [st |-> "settled", v |-> returned.v]]
          /\ rsRace' = [rsRace EXCEPT ![run] = races]
          /\ IF run = rsRun /\ rsPc = "scoring"
             THEN RsAwaitAll(run, races)
             ELSE UNCHANGED <<rsRecords, rsPc>>
    /\ UNCHANGED <<rsClaim, rsRun>>
    /\ UNCHANGED <<aiApiKey, aiInitialized>>
    /\ UNCHANGED <<now, apiKey, clClaims, clCached, clResult, clPath, clPc>>
    /\ UNCHANGED <<srCall, srOps, srResult, srPc>>
    /\ UNCHANGED rsFrame

\* the timers of one delay fire before the scorers they race have returned.
\* The timers of a run are armed in the same synchronous stretch, so those
\* of one delay are due together, and those of the AI scorers first.
RsTimersFire(delay) ==
    /\ rsPc = "scoring"
    /\ \E s \in Signals : TimeoutMs(s) = delay /\ rsRace[rsRun][s].st = "pending"
    /\ \A t \in Signals : TimeoutMs(t) < delay => rsRace[rsRun][t].st # "pending"
    /\ \E races \in {[s \in Signals |->
                        IF TimeoutMs(s) = delay /\ rsRace[rsRun][s].st = "pending"
                        THEN [st |-> "timeout", from |-> "timer", v |-> DefaultValue(s)]
                        ELSE rsRace[rsRun][s]]} :
          /\ rsRace' = [rsRace EXCEPT ![rsRun] = races]
          /\ RsAwaitAll(rsRun, races)
    /\ UNCHANGED <<rsClaim, rsRun, rsScorer>>
    /\ UNCHANGED <<aiApiKey, aiInitialized>>
    /\ UNCHANGED <<cache, now, apiKey, clClaims, clCached, clResult, clPath, clPc>>
    /\ UNCHANGED <<srCall, srOps, srResult, srPc>>
    /\ UNCHANGED rsFrame

RsNext ==
    \/ Rescore
    \/ \E run \in Runs : \E s \in Signals : RsScorerReturns(run, s)
    \/ \E delay \in {AI_SCORER_TIMEOUT, WEB_SCORER_TIMEOUT} : RsTimersFire(delay)

-----------------------------------------------------------------------------
(* Properties of scoring a claim again *)

\* the score in what a scorer returned
ScoreOf(s, v) == IF s \in LmSignals THEN v ELSE v.score

\* the cache holds, for every scorer that reads it, the signal value of the
\* record of the first run
HoldsFirstRunValues ==
    /\ rsRecords[1].resolved
    /\ \A s \in Signals :
          ReadsCache(rsClaim, s, aiApiKey) =>
              /\ ScorerKey(rsClaim, s) \in DOMAIN cache
              /\ cache[ScorerKey(rsClaim, s)].value = rsRecords[1].scores[s]

\* C21: scoring the same classified claim again while the cache holds the
\* signal values the first run obtained yields the trustScore of the first run
C21_RescoreSameTrustScore ==
    [][(rsRun >= 1 /\ rsRun' = rsRun + 1 /\ HoldsFirstRunValues) =>
          /\ rsRecords'[rsRun'].resolved
          /\ rsRecords'[rsRun'].trustScore = rsRecords[1].trustScore]_vars

\* the first run got its four signal values from the collaborators, the
\* second run all four from the cache, and the records agree on a trustScore
\* that is not 0
C21_Witness ==
    /\ rsRun = 2
    /\ rsRecords[2].resolved
    /\ \A s \in Signals : rsRace[1][s].from = "remote" /\ rsRace[2][s].from = "cache"
    /\ rsRecords[2].trustScore = rsRecords[1].trustScore
    /\ rsRecords[2].trustScore # Num(0, 1)

\* the scorer of signal s of a run returns in this step, after the timer of
\* its race has fired
ReturnsLate(run, s) ==
    /\ rsRace[run][s].st = "timeout"
    /\ rsScorer[run][s].st = "remote"
    /\ rsScorer'[run][s].st = "settled"

\* C26: once the timeout default has been substituted for a signal, the
\* signal holds the default in the race and in the record, and the scorer
\* returning later changes no race and no record, of this run or another
C26_LateScorerChangesNoRecord ==
    /\ [](\A run \in Runs : \A s \in Signals :
             rsRace[run][s].st = "timeout" =>
                /\ rsRace[run][s].v = DefaultValue(s)
                /\ rsRecords[run].resolved =>
                      rsRecords[run].scores[s] = ScoreOf(s, DefaultValue(s)))
    /\ [][\A run \in Runs : \A s \in Signals :
             ReturnsLate(run, s) => rsRace' = rsRace /\ rsRecords' = rsRecords]_vars

\* the credibility scorer of the first run returned 10 after its timer had
\* fired, and the record of the run has 'n/a' for the signal and a note
C26_Witness ==
    /\ rsRace[1]["aiRating"].st = "timeout"
    /\ rsScorer[1]["aiRating"] = [st |-> "settled", v |-> Num(10, 1)]
    /\ rsRecords[1].resolved
    /\ rsRecords[1].scores["aiRating"] = NA
    /\ rsRecords[1].note # Absent

\* C28: no search result from the domain of the article is listed among the
\* web sources of a record of ClaimScorer.score
C28_OwnDomainExcluded ==
    \A run \in Runs :
        rsRecords[run].resolved =>
            \A i \in DOMAIN rsRecords[run].sources.web :
                ~includes(ToLowerCase(rsRecords[run].sources.web[i].domain), ArticleDomain)

\* C29: a scorer that returns a score after the timer of its race has fired
\* still writes the score to the cache under its key
C29_LateScorerStillCaches ==
    [][\A run \in Runs : \A s \in Signals :
          (ReturnsLate(run, s) /\ ScoreOf(s, rsScorer'[run][s].v) # NA) =>
              /\ ScorerKey(rsClaim, s) \in DOMAIN cache'
              /\ cache'[ScorerKey(rsClaim, s)] =
                    [value |-> ScoreOf(s, rsScorer'[run][s].v),
                     expiresAt |-> now + 86400 * 1000]]_vars

\* the first run recorded 'n/a' for the credibility rating because its timer
\* fired; the scorer returned late, and the second run read its score from
\* the cache and arrived at another trustScore
C29_Witness ==
    /\ rsRun = 2
    /\ rsRecords[1].resolved /\ rsRecords[2].resolved
    /\ rsRace[1]["aiRating"].st = "timeout"
    /\ rsRecords[1].scores["aiRating"] = NA
    /\ rsRace[2]["aiRating"].from = "cache"
    /\ rsRecords[2].scores["aiRating"] = Num(10, 1)
    /\ rsRecords[2].trustScore # rsRecords[1].trustScore

-----------------------------------------------------------------------------
(* Cache entries addressed through Cache.generateKey *)

\* The claim texts of the accesses: two that differ in letter case only,
\* and one with a colon
KeyTexts == {<<"A">>, <<"a">>, <<"b", ":">>}

\* The (type, classification, claim) triples of the accesses: checkCache
\* and cacheClassifications pass 'classification' and no classification,
\* the scorers their type and the classification of the claim
AccessTriples ==
    {[type |-> TypeClassification, classification |-> <<>>, claim |-> t] : t \in KeyTexts}
    \cup {[type |-> type, classification |-> Chars(c), claim |-> t] :
             type \in {TypeScholar, TypeWeb}, c \in CachedClassifications,
             t \in {<<"A">>, <<"a">>}}

\* the score a scorer caches
KeyedValue == Tenths(70)

\* the key of each access
TripleKeys ==
    [triple \in AccessTriples |->
        generateKey(triple.claim, triple.type, triple.classification)]

KeyOf(triple) == TripleKeys[triple]

NoGetBy == [called |-> FALSE, by |-> <<>>, key |-> <<>>, hit |-> FALSE, value |-> Null]

\* await Cache.set(Cache.generateKey(claim, type, classification), value, 86400)
KeySet(triple, value) ==
    /\ \E key \in {KeyOf(triple)} :
          /\ cache' = CacheSet(cache, key, value, CacheTtl, now)
          /\ kvLast' = [k \in DOMAIN kvLast \cup {key} |->
                           IF k = key THEN [value |-> value, by |-> triple]
                           ELSE kvLast[k]]
    /\ kvGot' = NoGetBy
    /\ UNCHANGED <<now, apiKey, clClaims, clCached, clResult, clPath, clPc>>
    /\ UNCHANGED kvFrame

\* await Cache.get(Cache.generateKey(claim, type, classification))
KeyGet(triple) ==
    /\ \E key \in {KeyOf(triple)} :
       \E got \in {CacheGet(cache, key, now)} :
          /\ cache' = got.cache
          /\ kvGot' = [called |-> TRUE, by |-> triple, key |-> key, hit |-> got.hit,
                       value |-> got.value]
    /\ UNCHANGED kvLast
    /\ UNCHANGED <<now, apiKey, clClaims, clCached, clResult, clPath, clPc>>
    /\ UNCHANGED kvFrame

KeyNext ==
    \/ \E triple \in AccessTriples : KeySet(triple, KeyedValue)
    \/ \E triple \in AccessTriples : KeyGet(triple)

\* the last get returned an entry
GetHit == kvGot.called /\ kvGot.hit

\* the triple of the Cache.set that wrote the entry the last get returned
WrittenBy == kvLast[kvGot.key].by

LowerTriple(triple) ==
    [type |-> ToLowerCase(triple.type),
     classification |-> ToLowerCase(triple.classification),
     claim |-> ToLowerCase(triple.claim)]

\* C33 as stated: a get returns an entry only if the entry was set with the
\* same signal type, the same classification and the same claim text
C33_SameTripleOnly == GetHit => kvGot.by = WrittenBy

\* C33 amended: a get returns an entry only if the entry was set with the
\* same signal type, classification and claim text up to letter case
C33_SameTripleUpToCase ==
    /\ GetHit => LowerTriple(kvGot.by) = LowerTriple(WrittenBy)
    /\ \A k \in DOMAIN cache : cache[k].value = kvLast[k].value

\* the web score cached for the claim 'A' is returned for the claim 'a'
C33_Witness ==
    /\ GetHit
    /\ WrittenBy = [type |-> TypeWeb, classification |-> Chars("empirical_fact"), claim |-> <<"A">>]
    /\ kvGot.by = [type |-> TypeWeb, classification |-> Chars("empirical_fact"), claim |-> <<"a">>]
    /\ kvGot.value = KeyedValue

-----------------------------------------------------------------------------
(* ScholarScorer.score over searches of every size *)

\* The most results a scholar search returns in the model
MaxScholarResults == 16

\* What WebSearch.searchScholar resolves to: up to MaxScholarResults
\* results, any number of them from Nature.com
ScholarSearches ==
    {ScholarResults(n, a) : n \in 0 .. MaxScholarResults, a \in 0 .. MaxScholarResults}

ScholarNext ==
    \/ ScholarScore(<<"A">>, "empirical_fact")
    \/ \E results \in ScholarSearches : ScholarSearchResolves(results)

\* the results of the search from a domain of the high-authority list
FromNature(results) == {i \in DOMAIN results : results[i].domain = <<"N", "a", "t", "u", "r", "e", ".", "c", "o", "m">>}

TierBase(n) ==
    CASE n < 2 -> 1
      [] n >= 2 /\ n <= 4 -> 2
      [] n >= 5 /\ n <= 9 -> 3
      [] n >= 10 /\ n <= 14 -> 4
      [] OTHER -> 5

AuthorityBonus(a) ==
    CASE a >= 5 -> 5
      [] a >= 3 /\ a < 5 -> 3
      [] a >= 1 /\ a < 3 -> 2
      [] OTHER -> 0

TierScore(n, a) ==
    IF TierBase(n) + AuthorityBonus(a) < 10 THEN TierBase(n) + AuthorityBonus(a) ELSE 10

\* a scholar search has resolved and ScholarScorer.score has returned
ScholarSearched ==
    srPc = "returned" /\ srCall.scorer = "scholar" /\ srOps.searches = 1

\* no larger search with at least as many authoritative results scores lower
NonDecreasing(score) ==
    \A results \in ScholarSearches :
        (/\ Len(results) >= Len(srResult.sources)
         /\ Cardinality(FromNature(results)) >= Cardinality(FromNature(srResult.sources)))
        => Leq(score, Num(ScholarCalculateScore(results), 1))

\* C34 as stated: for every list of results the scholarly score is
\* min(10, base + bonus), base 1 for fewer than 2 results
C34_TierScoreEveryList ==
    ScholarSearched =>
        srResult.score = Num(TierScore(Len(srResult.sources),
                                       Cardinality(FromNature(srResult.sources))), 1)

\* C34 amended: for every non-empty list of results the scholarly score is
\* min(10, base + bonus), for the empty list it is 0, and the score is
\* non-decreasing in the result count and in the authoritative count
C34_TierScore ==
    ScholarSearched =>
        /\ srResult.score =
              IF Len(srResult.sources) = 0 THEN Num(0, 1)
              ELSE Num(TierScore(Len(srResult.sources),
                                 Cardinality(FromNature(srResult.sources))), 1)
        /\ NonDecreasing(srResult.score)

\* fifteen results, five of them authoritative: 5 + 5 = 10
C34_Witness ==
    /\ ScholarSearched
    /\ Len(srResult.sources) = 15
    /\ Cardinality(FromNature(srResult.sources)) = 5
    /\ srResult.score = Num(10, 1)

\* the sources a record lists for a search signal
SourcesOf(record, s) ==
    IF s = "scholarlyMatch" THEN record.sources.scholar ELSE record.sources.web

\* the scorer of signal s of an earlier run computed this score from a
\* search, which had results if the score is not 0
ComputedEarlier(run, s, score) ==
    \E earlier \in 1 .. run - 1 :
        /\ rsScorer[earlier][s].st = "settled"
        /\ rsRace[earlier][s].from # "cache"
        /\ rsScorer[earlier][s].v.score = score
        /\ score # Num(0, 1) => rsScorer[earlier][s].v.sources # <<>>

\* C35: a web or scholarly score served from the cache comes with an empty
\* source list: the record keeps the score an earlier run computed and
\* lists no source for the signal, and none at all when both are cached
C35_CachedScoreHasNoSources ==
    \A run \in Runs :
        rsRecords[run].resolved =>
            /\ \A s \in SearchSignals :
                  rsRace[run][s].from = "cache" =>
                      /\ ComputedEarlier(run, s, rsRecords[run].scores[s])
                      /\ SourcesOf(rsRecords[run], s) = <<>>
            /\ (\A s \in SearchSignals : rsRace[run][s].from = "cache") =>
                   rsRecords[run].sources.all = <<>>

\* an empirical claim scored twice: the second record has the scholarly and
\* web scores of the first, both positive, and no source, where the first
\* listed the results of both searches
C35_Witness ==
    /\ rsRun = 2
    /\ rsRecords[1].resolved /\ rsRecords[2].resolved
    /\ \A s \in SearchSignals :
          /\ rsRace[1][s].from = "remote" /\ rsRace[2][s].from = "cache"
          /\ rsRecords[2].scores[s] = rsRecords[1].scores[s]
          /\ rsRecords[2].scores[s] # Num(0, 1)
          /\ SourcesOf(rsRecords[1], s) # <<>>
    /\ rsRecords[1].sources.all # <<>>
    /\ rsRecords[2].sources.all = <<>>

-----------------------------------------------------------------------------
(* The positions of the claims of extract *)

\* the characters of text from offset start up to offset end, as
\* text.slice(start, end) returns them
slice(text, start, end) == SubSeq(text, start + 1, end)

\* C31: the position of every claim of extract is the place of its sentence
\* in the text extract was called with, and the positions of successive
\* claims increase without overlap
C31_PositionsInInput ==
    /\ \A k \in DOMAIN exClaims :
          /\ exClaims[k].position.start >= 0
          /\ exClaims[k].position.end <= Len(exInput)
          /\ Trim(slice(exInput, exClaims[k].position.start, exClaims[k].position.end))
                = exClaims[k].claim
    /\ \A k \in DOMAIN exClaims : \A l \in DOMAIN exClaims :
          k < l => exClaims[k].position.end <= exClaims[l].position.start

\* the same of the text that removeNoiseElements returned, which is the
\* text the loop searches
PositionsInCleanedText ==
    /\ \A k \in DOMAIN exClaims :
          /\ exClaims[k].position.start >= 0
          /\ exClaims[k].position.end <= Len(exText)
          /\ Trim(slice(exText, exClaims[k].position.start, exClaims[k].position.end))
                = exClaims[k].claim
    /\ \A k \in DOMAIN exClaims : \A l \in DOMAIN exClaims :
          k < l => exClaims[k].position.end <= exClaims[l].position.start

-----------------------------------------------------------------------------
(* The sentences extract does not find *)

\* the offsets at or after the cursor at which the sentence stands in text
FoundFrom(text, sentence, cursor) ==
    {p \in cursor .. Len(text) - Len(sentence) : slice(text, p, p + Len(sentence)) = sentence}

\* C36: a sentence that does not stand in the text at or after the cursor
\* yields no claim, and the cursor advances by its length; a claim is
\* emitted only for a sentence found there, with the first such place as
\* its position
C36_UnlocatedSentenceSkipped ==
    [][(exPc = "loop" /\ exI <= Len(exSentences)) =>
          \E found \in {FoundFrom(exText, exSentences[exI], exCurrentPos)} :
             IF found = {}
             THEN /\ exClaims' = exClaims
                  /\ exCurrentPos' = exCurrentPos + Len(exSentences[exI])
                  /\ exI' = exI + 1
                  /\ exPc' = "loop"
             ELSE /\ exCurrentPos' \in {p + Len(exSentences[exI]) : p \in found}
                  /\ \A p \in found : exCurrentPos' <= p + Len(exSentences[exI])
                  /\ exClaims' # exClaims =>
                        /\ exClaims'[Len(exClaims')].position.end = exCurrentPos'
                        /\ exClaims'[Len(exClaims')].claim = Trim(exSentences[exI])]_vars

\* the loop has passed a check-worthy sentence that stands nowhere in the
\* text, its abbreviation rewritten, and no claim was made of it
C36_Witness ==
    /\ exPc = "loop"
    /\ exI >= 2
    /\ \E skipped \in {exSentences[exI - 1]} :
          /\ FoundFrom(exText, skipped, 0) = {}
          /\ isCheckWorthyClaim(skipped)
          /\ \A k \in DOMAIN exClaims : exClaims[k].claim # Trim(skipped)
          /\ exCurrentPos >= Len(skipped)

-----------------------------------------------------------------------------
(* What mergeQuotedContent keeps of its input *)

\* sentences first .. last joined by single spaces
JoinedSentences(sentences, first, last) == join(SubSeq(sentences, first, last), <<" ">>)

\* C37: the units are consecutive input sentences joined by single spaces,
\* in order and each sentence in exactly one unit: the units pushed so far,
\* joined by spaces, are the sentences passed so far joined by spaces; an
\* iteration either pushes the sentences it passes as one new unit or (the
\* backward merge) appends the one sentence it passes to the last unit, and
\* changes no other unit
C37_MergeConserves ==
    /\ [](join(mqMerged, <<" ">>) = JoinedSentences(mqSentences, 1, mqI - 1))
    /\ [][mqI' # mqI =>
             \/ /\ Len(mqMerged') = Len(mqMerged) + 1
                /\ SubSeq(mqMerged', 1, Len(mqMerged)) = mqMerged
                /\ mqMerged'[Len(mqMerged')] = JoinedSentences(mqSentences, mqI, mqI' - 1)
             \/ /\ mqRule' = "quote continued"
                /\ mqI' = mqI + 1
                /\ Len(mqMerged') = Len(mqMerged)
                /\ Len(mqMerged) > 0
                /\ SubSeq(mqMerged', 1, Len(mqMerged) - 1)
                      = SubSeq(mqMerged, 1, Len(mqMerged) - 1)
                /\ mqMerged'[Len(mqMerged)]
                      = mqMerged[Len(mqMerged)] \o <<" ">> \o mqSentences[mqI]]_vars

\* the backward merge has appended the last of three sentences to a unit
\* that was itself merged from the first two
C37_Witness ==
    /\ mqPc = "done"
    /\ mqRule = "quote continued"
    /\ Len(mqSentences) = 3
    /\ Len(mqMerged) = 1
    /\ mqMerged[1] = JoinedSentences(mqSentences, 1, 3)

-----------------------------------------------------------------------------
(* The sentences splitIntoSentences keeps *)

\* the sentences smartSplitSentences segments the paragraphs of text into,
\* before splitIntoSentences filters them
Segmented(text) ==
    CHOOSE sentences \in
        {SentencesFrom(paragraphs, 1) :
            paragraphs \in {Paragraphs(processed) :
                processed \in {withoutAbbreviations(text, Len(Abbreviations))}}} : TRUE

\* the sentences of trimmed length least or more, in their order
OfLength(sentences, least) == SelectSeq(sentences, LAMBDA s : Len(Trim(s)) >= least)

\* extract has split its cleaned text
ExtractSplit == exPc # "call" /\ Len(exInput) > 0

\* C38 as stated: the sentences extract goes on with are the segmented
\* sentences of trimmed length 20 or more, in source order
C38_KeepsTwentyOrMore ==
    ExtractSplit =>
        \E segmented \in {Segmented(exText)} :
            exSentences = mergeQuotedContent(OfLength(segmented, 20))

\* C38 as amended: the sentences extract goes on with are the segmented
\* sentences of trimmed length 21 or more, in source order; a sentence of
\* trimmed length 20 or less is discarded
C38_KeepsTwentyOneOrMore ==
    ExtractSplit =>
        \E segmented \in {Segmented(exText)} :
            exSentences = mergeQuotedContent(OfLength(segmented, 21))

\* a text of a sentence of 20 characters and one of 43: only the second is kept
C38_Witness ==
    /\ ExtractSplit
    /\ exPc = "loop"
    /\ \E segmented \in {Segmented(exText)} :
         /\ Len(segmented) = 2
         /\ Len(Trim(segmented[1])) = 20
         /\ Len(Trim(segmented[2])) = 43
         /\ exSentences = <<segmented[2]>>

-----------------------------------------------------------------------------
(* ClaimExtractor.smartSplitSentences over short paragraphs *)

\* an uppercase and a lowercase letter, a sentence end, the quote, the space
ParagraphCharacters == {"A", "b", ".", "\"", " "}

MaxParagraph == 5

\* the paragraphs splitIntoSentences passes on: those that do not trim to nothing
SplitParagraphs ==
    {para \in UNION {[1 .. n -> ParagraphCharacters] : n \in 1 .. MaxParagraph} :
        Len(Trim(para)) > 0}

SplitInit ==
    /\ maxClaimsPerArticle = DefaultMaxClaims
    /\ exInput = <<>>
    /\ exText = <<>>
    /\ exSentences = <<>>
    /\ exI = 1
    /\ exCurrentPos = 0
    /\ exClaims = NoClaims
    /\ exResult = NoClaims
    /\ exPc = "call"

\* const sentences = this.smartSplitSentences(para)
SmartSplit(para) ==
    /\ exPc = "call"
    /\ exInput' = para
    /\ exText' = para
    /\ exSentences' = smartSplitSentences(para)
    /\ exPc' = "split"
    /\ UNCHANGED <<maxClaimsPerArticle, exI, exCurrentPos, exClaims, exResult, exFrame>>

SplitNext == \E para \in SplitParagraphs : SmartSplit(para)

\* a quotation is open after the character at i: the quotes up to it are odd in number
QuoteOpenAfter(text, i) == Cardinality({j \in 1 .. i : text[j] = "\""}) % 2 = 1

\* the characters a sentence may end at: a sentence end outside an open
\* quotation, followed by a space and an uppercase letter or the last of the text
Boundaries(text) ==
    {i \in DOMAIN text :
        /\ text[i] \in SentenceEnd
        /\ ~QuoteOpenAfter(text, i)
        /\ \/ /\ i + 2 <= Len(text)
              /\ text[i + 1] = " "
              /\ text[i + 2] \in Upper
           \/ i = Len(text)}

\* the text cut after each of the cuts, each piece trimmed, the empty ones left out
PiecesBetween(text, cuts) ==
    LET from == {0} \cup cuts
        pieces == [k \in 1 .. Cardinality(from) |->
                      Trim(SubSeq(text, Nth(from, k) + 1,
                                  IF k = Cardinality(from) THEN Len(text)
                                  ELSE Nth(from, k + 1)))]
    IN  SelectSeq(pieces, LAMBDA piece : Len(piece) > 0)

NonBlank(str) == SelectSeq(str, LAMBDA c : c # " ")

\* what follows the last boundary before the quotation left open
AfterLastBoundaryBeforeOpenQuote(text) ==
    LET open == CHOOSE q \in DOMAIN text :
                    text[q] = "\"" /\ \A j \in q + 1 .. Len(text) : text[j] # "\""
        before == {0} \cup {i \in Boundaries(text) : i < open}
        last == CHOOSE i \in before : \A j \in before : j <= i
    IN  Trim(SubSeq(text, last + 1, Len(text)))

\* C39: the sentences end exactly at the sentence ends outside an open
\* quotation that a space and an uppercase letter follow or that end the
\* text; the pieces, in order, hold every non-blank character of the
\* paragraph once; and a quotation left open leaves all that follows the
\* last boundary before it as the one final piece
C39_SmartSplit ==
    exPc = "split" =>
        /\ exSentences = PiecesBetween(exInput, Boundaries(exInput))
        /\ NonBlank(join(exSentences, <<>>)) = NonBlank(exInput)
        /\ QuoteOpenAfter(exInput, Len(exInput)) =>
              /\ Len(exSentences) > 0
              /\ exSentences[Len(exSentences)] = AfterLastBoundaryBeforeOpenQuote(exInput)

\* a quotation left open holds a sentence end followed by a space and an
\* uppercase letter: the paragraph is one piece
C39_Witness ==
    /\ exPc = "split"
    /\ exInput = <<"\"", "A", ".", " ", "A">>
    /\ exSentences = <<exInput>>

-----------------------------------------------------------------------------
(* Lookups while loadSnapshot is under way *)

\* the tables that are whole: the core table and the mappings served
WholeTables == {DEFAULT_MAP} \cup Snapshots

\* loadSnapshot awaits fetch or r.json()
ReloadInFlight == lsPc \in {"fetch", "json"}

\* C40: the active map is always a whole table, and so is the map any
\* lookup read; the active map changes only in the step that ends a reload
\* (or when the script is evaluated anew); a lookup made while a reload
\* awaits fetch or r.json() reads the table from before the reload and is
\* answered from it
C40_LookupSeesWholeTable ==
    /\ [](MAP \in WholeTables /\ brLookup.map \in WholeTables \cup {NoLookup.map})
    /\ [][MAP' # MAP =>
             \/ ReloadInFlight /\ lsPc' = "idle"
             \/ MAP' = DEFAULT_MAP /\ lsReload' = NoReload]_vars
    /\ [][(ReloadInFlight /\ brLookup' # brLookup /\ brLookup'.result # "none") =>
             /\ brLookup'.map = lsReload.before
             /\ brLookup'.result = TableLean(lsReload.before, normHost(brLookup'.x))
             /\ MAP' = lsReload.before]_vars

\* a second reload has fetched its response and awaits r.json();
\* edition.cnn.com was looked up in the table the first reload loaded, in
\* which cnn.com is right
C40_Witness ==
    /\ lsPc = "json"
    /\ lsReload.before \in Snapshots
    /\ brLookup.map = lsReload.before
    /\ brLookup.x = <<"e", "d", "i", "t", "i", "o", "n", ".", "c", "n", "n", ".", "c", "o", "m">>
    /\ brLookup.result = "right"

-----------------------------------------------------------------------------
(* Specifications *)

InitTrust == TsInit /\ ScIdle /\ ClIdle /\ KvIdle /\ SrIdle /\ WcIdle /\ BrIdle /\ CwIdle /\ MqIdle /\ ExIdle /\ RtIdle /\ PlIdle /\ RsIdle

SpecTrust == InitTrust /\ [][CalculateTrustScore]_vars

InitScore == ScInit /\ TsIdle /\ ClIdle /\ KvIdle /\ SrIdle /\ WcIdle /\ BrIdle /\ CwIdle /\ MqIdle /\ ExIdle /\ RtIdle /\ PlIdle /\ RsIdle

SpecScore == InitScore /\ [][ScNext]_vars

\* score is called, and armed timers fire (setTimeout callbacks run)
SomeTimerFires == \E i \in DOMAIN scClaims : \E s \in Signals : TimerFires(i, s)

SpecScoreFair == SpecScore /\ WF_vars(Score) /\ WF_vars(SomeTimerFires)

InitClassify == ClInit /\ TsIdle /\ ScIdle /\ KvIdle /\ SrIdle /\ WcIdle /\ BrIdle /\ CwIdle /\ MqIdle /\ ExIdle /\ RtIdle /\ PlIdle /\ RsIdle

SpecClassify == InitClassify /\ [][ClNext]_vars

InitCache == ClIdle /\ KvIdle /\ TsIdle /\ ScIdle /\ SrIdle /\ WcIdle /\ BrIdle /\ CwIdle /\ MqIdle /\ ExIdle /\ RtIdle /\ PlIdle /\ RsIdle

SpecCache == InitCache /\ [][KvNext]_vars

InitScorers == SrInit /\ KvIdle /\ TsIdle /\ ScIdle /\ WcIdle /\ BrIdle /\ CwIdle /\ MqIdle /\ ExIdle /\ RtIdle /\ PlIdle /\ RsIdle

SpecScorers == InitScorers /\ [][SrNext]_vars

InitWebScore == WcInit /\ TsIdle /\ ScIdle /\ ClIdle /\ KvIdle /\ SrIdle /\ BrIdle /\ CwIdle /\ MqIdle /\ ExIdle /\ RtIdle /\ PlIdle /\ RsIdle

SpecWebScore == InitWebScore /\ [][CalculateWebScore]_vars

InitBias == BrInit /\ TsIdle /\ ScIdle /\ ClIdle /\ KvIdle /\ SrIdle /\ WcIdle /\ CwIdle /\ MqIdle /\ ExIdle /\ RtIdle /\ PlIdle /\ RsIdle

SpecBias == InitBias /\ [][BrNext]_vars

InitCheckWorthy == CwInit /\ TsIdle /\ ScIdle /\ ClIdle /\ KvIdle /\ SrIdle /\ WcIdle /\ BrIdle /\ MqIdle /\ ExIdle /\ RtIdle /\ PlIdle /\ RsIdle

SpecCheckWorthy == InitCheckWorthy /\ [][CheckSentence]_vars

InitMerge == MqInit /\ TsIdle /\ ScIdle /\ ClIdle /\ KvIdle /\ SrIdle /\ WcIdle /\ BrIdle /\ CwIdle /\ ExIdle /\ RtIdle /\ PlIdle /\ RsIdle

\* the loop is synchronous code: it runs until it returns
SpecMerge == InitMerge /\ [][MqNext]_vars /\ WF_vars(MqNext)

InitExtract == ExInit /\ TsIdle /\ ScIdle /\ ClIdle /\ KvIdle /\ SrIdle /\ WcIdle /\ BrIdle /\ CwIdle /\ MqIdle /\ RtIdle /\ PlIdle /\ RsIdle

SpecExtract == InitExtract /\ [][ExNext]_vars

InitSpectrum == SpectrumInit /\ BrInit /\ TsIdle /\ ScIdle /\ ClIdle /\ KvIdle /\ SrIdle /\ CwIdle /\ MqIdle /\ ExIdle /\ RtIdle /\ PlIdle /\ RsIdle

SpecSpectrum == InitSpectrum /\ [][CalculateWebScore]_vars

InitCheckWorthyScore == CwScoreInit /\ TsIdle /\ ScIdle /\ ClIdle /\ KvIdle /\ SrIdle /\ WcIdle /\ BrIdle /\ MqIdle /\ ExIdle /\ RtIdle /\ PlIdle /\ RsIdle

SpecCheckWorthyScore == InitCheckWorthyScore /\ [][CheckSentence]_vars

InitRetry == ClInit /\ TsIdle /\ ScIdle /\ KvIdle /\ SrIdle /\ WcIdle /\ BrIdle /\ CwIdle /\ MqIdle /\ ExIdle /\ RtIdle /\ PlIdle /\ RsIdle

SpecRetry == InitRetry /\ [][RtNext]_vars

InitPipeline == PlInit /\ TsIdle /\ ScIdle /\ ClIdle /\ KvIdle /\ SrIdle /\ WcIdle /\ BrIdle /\ CwIdle /\ MqIdle /\ ExIdle /\ RtIdle /\ RsIdle

SpecPipeline == InitPipeline /\ [][PlNext]_vars

InitRescore == RsInit /\ ClInit /\ SrIdle /\ TsIdle /\ ScIdle /\ KvIdle /\ WcIdle /\ BrIdle /\ CwIdle /\ MqIdle /\ ExIdle /\ RtIdle /\ PlIdle

SpecRescore == InitRescore /\ [][RsNext]_vars

InitKeys == ClIdle /\ KvIdle /\ TsIdle /\ ScIdle /\ SrIdle /\ WcIdle /\ BrIdle /\ CwIdle /\ MqIdle /\ ExIdle /\ RtIdle /\ PlIdle /\ RsIdle

SpecKeys == InitKeys /\ [][KeyNext]_vars

InitScholar == SrIdle /\ ClIdle /\ KvIdle /\ TsIdle /\ ScIdle /\ WcIdle /\ BrIdle /\ CwIdle /\ MqIdle /\ ExIdle /\ RtIdle /\ PlIdle /\ RsIdle

SpecScholar == InitScholar /\ [][ScholarNext]_vars

InitSplit == SplitInit /\ TsIdle /\ ScIdle /\ ClIdle /\ KvIdle /\ SrIdle /\ WcIdle /\ BrIdle /\ CwIdle /\ MqIdle /\ RtIdle /\ PlIdle /\ RsIdle

SpecSplit == InitSplit /\ [][SplitNext]_vars

====
